---- MODULE Spec2Model ----
(***************************************************************************)
(* A model of workshop-factory's generation core:                          *)
(*   - streamResponse (src/src/client.ts): the bridge from the session's   *)
(*     push events to an async generator of chunks;                        *)
(*   - regenerateWorkshop (src/unnamed/part_008): the section splice.      *)
(***************************************************************************)
EXTENDS Integers, Sequences, FiniteSets, TLC

(***************************************************************************)
(* Bounds of the model.                                                    *)
(***************************************************************************)
\* how many events the session emits in one run
MaxEvents == 4

\* delta fragments and final-message texts, as sequences of characters
Fragments == {<<"a">>, <<"b">>}
Messages == {<<"a", "b">>}

(***************************************************************************)
(* State of one streamResponse call.                                       *)
(***************************************************************************)
VARIABLES
    pc,            \* where the generator is suspended
    subs,          \* the session's registered handlers of this call
    chunks,        \* chunks: string[]
    isComplete,    \* let isComplete
    streamQueue,   \* streamQueue: (StreamChunk | null)[]
    queueResolver, \* queueResolver is set (TRUE) or null (FALSE)
    microtasks,    \* the engine's microtask queue (FIFO)
    turn,          \* "open" while a synchronous dispatch of the session runs
    sendState,     \* the promise of session.send
    nEmitted,      \* events the session has emitted so far
    yielded,       \* history: the chunks handed to the consumer
    received,      \* history: the content events the handlers received
    idleMark,      \* history: Len(received) when the idle handler first ran
    sentinelMark,  \* history: Len(received) when the sentinel was first enqueued
    idleTurn,      \* history: the dispatch turn the idle handler first ran in
    exit           \* history: how the generator finished

streamVars == <<pc, subs, chunks, isComplete, streamQueue, queueResolver,
                microtasks, turn, sendState, nEmitted, yielded, received,
                idleMark, sentinelMark, idleTurn, exit>>

(***************************************************************************)
(* State of regenerateWorkshop calls on one workshop file.                 *)
(***************************************************************************)
VARIABLES
    rpc,             \* where regenerateWorkshop is
    stored,          \* the workshop file's document
    workshop,        \* const workshop (the loaded, then spliced document)
    sectionMap,      \* const sectionMap
    sectionsToRegen, \* let sectionsToRegen
    contextFiles,    \* options.contextFiles
    updatedWorkshop, \* const updatedWorkshop (the parsed response)
    updatedCount,    \* let updatedCount
    warned,          \* console.warn was called with the count mismatch
    error,           \* the error the call threw, "none" if none
    before           \* history: the document as loaded by the current call

regenVars == <<rpc, stored, workshop, sectionMap, sectionsToRegen, contextFiles,
               updatedWorkshop, updatedCount, warned, error, before>>

(***************************************************************************)
(* State of one application of mapSectionIndices.                          *)
(***************************************************************************)
VARIABLES
    mapWorkshop,     \* the workshop handed to mapSectionIndices
    mapResult,       \* the Map it returned, as a function of the flat index
    mapped           \* whether mapSectionIndices has returned

mapVars == <<mapWorkshop, mapResult, mapped>>

(***************************************************************************)
(* State of the calls of extractJson on one response.                      *)
(***************************************************************************)
VARIABLES
    response,        \* what the response is made of
    responseText,    \* the response: the argument of extractJson
    extracted,       \* what extractJson(text) returned
    again,           \* what extractJson returned for that
    epc              \* "given", "extracted" or "again"

extractVars == <<response, responseText, extracted, again, epc>>

(***************************************************************************)
(* State of one run of the validate command.                               *)
(***************************************************************************)
VARIABLES
    vFile,           \* the workshop file the command is given
    vResult,         \* what validateWorkshop returned
    vExit,           \* the exit code of the command, -1 while it runs
    vpc,             \* "start" or "exited"
    readable,        \* the paths access(path, R_OK) succeeds on
    tResult,         \* what the validate_structure tool returned
    tpc              \* "none" (tool not called), "start" or "returned"

validateVars == <<vFile, vResult, vExit, vpc, readable, tResult, tpc>>

pureVars == <<mapVars, extractVars, validateVars>>

vars == <<streamVars, regenVars, pureVars>>

AllSubs == {"assistant.message_delta", "assistant.message", "session.idle"}

\* the null sentinel of the queue, with the fields of a chunk
NullItem == [type |-> "null", content |-> <<>>, accumulated |-> <<>>]

\* chunks.join("")
RECURSIVE Join(_)
Join(ss) == IF ss = <<>> THEN <<>> ELSE Head(ss) \o Join(Tail(ss))

\* mutant: the delta handler forgets the earlier fragments
DeltaChunkOwnFragmentOnly(fragment, all) ==
    [type |-> "delta", content |-> fragment, accumulated |-> fragment]

DeltaChunk(fragment, all) ==
    [type |-> "delta", content |-> fragment, accumulated |-> Join(all)]

CompleteChunk(text) ==
    [type |-> "complete", content |-> text, accumulated |-> text]

Finished == pc \in {"done", "failed"}

\* mutant: enqueue puts the item at the front of the queue (unshift for push)
EnqueueAtFront(item, mt) ==
    /\ streamQueue' = <<item>> \o streamQueue
    /\ IF queueResolver
         THEN /\ microtasks' = Append(mt, "resume")
              /\ queueResolver' = FALSE
         ELSE /\ microtasks' = mt
              /\ queueResolver' = FALSE

\* mutant: enqueue never calls the resolver
EnqueueWithoutWake(item, mt) ==
    /\ streamQueue' = Append(streamQueue, item)
    /\ microtasks' = mt
    /\ UNCHANGED queueResolver

\* enqueue(item), called with the microtask queue mt
Enqueue(item, mt) ==
    /\ streamQueue' = Append(streamQueue, item)
    /\ IF queueResolver
         THEN /\ microtasks' = Append(mt, "resume")
              /\ queueResolver' = FALSE
         ELSE /\ microtasks' = mt
              /\ queueResolver' = FALSE

\* mutant: the listeners are removed after the loop, not in a finally block
CleanupAfterLoopOnly(how, state) ==
    /\ subs' = IF how \in {"sentinel", "loopExit"} THEN {} ELSE subs
    /\ pc' = state
    /\ exit' = how

\* the finally block, and the generator's completion
Finally(how, state) ==
    /\ subs' = {}
    /\ pc' = state
    /\ exit' = how

\* mutant: while (!isComplete), which leaves queued chunks behind
OuterLoopUntilComplete(mt) ==
    \/ /\ ~isComplete
       /\ Len(streamQueue) > 0
       /\ pc' = "awaitWait"
       /\ microtasks' = Append(mt, "resume")
       /\ UNCHANGED <<subs, exit, queueResolver, streamQueue, yielded>>
    \/ /\ ~isComplete
       /\ Len(streamQueue) = 0
       /\ pc' = "awaitWait"
       /\ queueResolver' = TRUE
       /\ microtasks' = mt
       /\ UNCHANGED <<subs, exit, streamQueue, yielded>>
    \/ /\ isComplete
       /\ Finally("loopExit", "done")
       /\ microtasks' = mt
       /\ UNCHANGED <<queueResolver, streamQueue, yielded>>

\* mutant: while (streamQueue.length > 0), which ends on an empty queue
OuterLoopWhileQueued(mt) ==
    \/ /\ Len(streamQueue) > 0
       /\ pc' = "awaitWait"
       /\ microtasks' = Append(mt, "resume")
       /\ UNCHANGED <<subs, exit, queueResolver, streamQueue, yielded>>
    \/ /\ Len(streamQueue) = 0
       /\ Finally("loopExit", "done")
       /\ microtasks' = mt
       /\ UNCHANGED <<queueResolver, streamQueue, yielded>>

\* a waitForItem() that has a suspension point between finding the queue
\* empty and setting queueResolver: the generator is suspended with the
\* resolver not yet set
OuterLoopRegisteringLate(mt) ==
    \/ /\ ~isComplete \/ Len(streamQueue) > 0
       /\ Len(streamQueue) > 0
       /\ pc' = "awaitWait"
       /\ microtasks' = Append(mt, "resume")
       /\ UNCHANGED <<subs, exit, queueResolver, streamQueue, yielded>>
    \/ /\ ~isComplete \/ Len(streamQueue) > 0
       /\ Len(streamQueue) = 0
       /\ pc' = "awaitWait"
       /\ microtasks' = mt
       /\ UNCHANGED <<subs, exit, queueResolver, streamQueue, yielded>>
    \/ /\ ~(~isComplete \/ Len(streamQueue) > 0)
       /\ Finally("loopExit", "done")
       /\ microtasks' = mt
       /\ UNCHANGED <<queueResolver, streamQueue, yielded>>

\* the outer loop's test and waitForItem(), called with the microtask queue mt
OuterLoop(mt) ==
    \/ /\ ~isComplete \/ Len(streamQueue) > 0
       /\ Len(streamQueue) > 0
       /\ pc' = "awaitWait"
       /\ microtasks' = Append(mt, "resume")
       /\ UNCHANGED <<subs, exit, queueResolver, streamQueue, yielded>>
    \/ /\ ~isComplete \/ Len(streamQueue) > 0
       /\ Len(streamQueue) = 0
       /\ pc' = "awaitWait"
       /\ queueResolver' = TRUE
       /\ microtasks' = mt
       /\ UNCHANGED <<subs, exit, streamQueue, yielded>>
    \/ /\ ~(~isComplete \/ Len(streamQueue) > 0)
       /\ Finally("loopExit", "done")
       /\ microtasks' = mt
       /\ UNCHANGED <<queueResolver, streamQueue, yielded>>

\* the inner loop, entered after waitForItem() or after a yield. The generator
\* is resumed by next() where it yielded; the wait a yield makes for its operand
\* reads and writes nothing of this state and is not a step of its own.
InnerLoop(mt) ==
    \/ /\ Len(streamQueue) > 0
       /\ Head(streamQueue) = NullItem
       /\ streamQueue' = Tail(streamQueue)
       /\ Finally("sentinel", "done")
       /\ microtasks' = mt
       /\ UNCHANGED <<queueResolver, yielded>>
    \/ /\ Len(streamQueue) > 0
       /\ Head(streamQueue) # NullItem
       /\ streamQueue' = Tail(streamQueue)
       /\ yielded' = Append(yielded, Head(streamQueue))
       /\ pc' = "yield"
       /\ microtasks' = mt
       /\ UNCHANGED <<subs, exit, queueResolver>>
    \/ /\ Len(streamQueue) = 0
       /\ OuterLoop(mt)

(***************************************************************************)
(* The session: it emits events in synchronous dispatch turns and settles  *)
(* the promise of send.                                                    *)
(***************************************************************************)
\* history, kept when idleTurn.kept: from and to are Len(received) at the
\* beginning and at the end of the dispatch turn the idle handler first ran in
\* (-1 until then); until then start is Len(received) at the beginning of the
\* turn that is open
TurnBegins ==
    IF idleTurn.kept /\ idleTurn.from < 0 /\ turn = "none"
      THEN [idleTurn EXCEPT !.start = Len(received)]
      ELSE idleTurn

EmitDelta ==
    /\ UNCHANGED <<regenVars, pureVars>>
    /\ nEmitted < MaxEvents
    /\ \E fragment \in Fragments :
         IF "assistant.message_delta" \in subs
           THEN /\ chunks' = Append(chunks, fragment)
                /\ Enqueue(DeltaChunk(fragment, Append(chunks, fragment)), microtasks)
                /\ received' = Append(received, DeltaChunk(fragment, Append(chunks, fragment)))
           ELSE UNCHANGED <<chunks, streamQueue, microtasks, queueResolver, received>>
    /\ nEmitted' = nEmitted + 1
    /\ turn' = "open"
    /\ idleTurn' = TurnBegins
    /\ UNCHANGED <<pc, subs, isComplete, sendState, yielded, idleMark, sentinelMark, exit>>

EmitMessage ==
    /\ UNCHANGED <<regenVars, pureVars>>
    /\ nEmitted < MaxEvents
    /\ \E text \in Messages :
         IF "assistant.message" \in subs
           THEN /\ Enqueue(CompleteChunk(text), microtasks)
                /\ received' = Append(received, CompleteChunk(text))
           ELSE UNCHANGED <<streamQueue, microtasks, queueResolver, received>>
    /\ nEmitted' = nEmitted + 1
    /\ turn' = "open"
    /\ idleTurn' = TurnBegins
    /\ UNCHANGED <<pc, subs, chunks, isComplete, sendState, yielded, idleMark, sentinelMark, exit>>

\* an idle handler that enqueues the sentinel itself: enqueue(null) without
\* queueMicrotask
EmitIdleEnqueueingSentinel ==
    /\ UNCHANGED <<regenVars, pureVars>>
    /\ nEmitted < MaxEvents
    /\ IF "session.idle" \in subs
         THEN /\ isComplete' = TRUE
              /\ Enqueue(NullItem, microtasks)
              /\ idleMark' = IF idleMark < 0 THEN Len(received) ELSE idleMark
              /\ sentinelMark' = IF sentinelMark < 0 THEN Len(received) ELSE sentinelMark
              /\ idleTurn' = IF idleTurn.kept /\ idleTurn.from < 0
                                THEN [idleTurn EXCEPT !.start = 0, !.from = TurnBegins.start]
                                ELSE TurnBegins
         ELSE /\ UNCHANGED <<isComplete, microtasks, idleMark, sentinelMark, streamQueue,
                             queueResolver>>
              /\ idleTurn' = TurnBegins
    /\ nEmitted' = nEmitted + 1
    /\ turn' = "open"
    /\ UNCHANGED <<pc, subs, chunks, sendState, yielded, received, exit>>

EmitIdle ==
    /\ UNCHANGED <<regenVars, pureVars>>
    /\ nEmitted < MaxEvents
    /\ IF "session.idle" \in subs
         THEN /\ isComplete' = TRUE
              /\ microtasks' = Append(microtasks, "sentinel")
              /\ idleMark' = IF idleMark < 0 THEN Len(received) ELSE idleMark
              /\ idleTurn' = IF idleTurn.kept /\ idleTurn.from < 0
                                THEN [idleTurn EXCEPT !.start = 0, !.from = TurnBegins.start]
                                ELSE TurnBegins
         ELSE /\ UNCHANGED <<isComplete, microtasks, idleMark>>
              /\ idleTurn' = TurnBegins
    /\ nEmitted' = nEmitted + 1
    /\ turn' = "open"
    /\ UNCHANGED <<pc, subs, chunks, streamQueue, queueResolver, sendState, yielded,
                   received, sentinelMark, exit>>

EndTurn ==
    /\ UNCHANGED <<regenVars, pureVars>>
    /\ turn = "open"
    /\ turn' = "none"
    /\ idleTurn' = IF idleTurn.from >= 0 /\ idleTurn.to < 0
                      THEN [idleTurn EXCEPT !.to = Len(received)]
                      ELSE [idleTurn EXCEPT !.start = 0]
    /\ UNCHANGED <<pc, subs, chunks, isComplete, streamQueue, queueResolver, microtasks,
                   sendState, nEmitted, yielded, received, idleMark, sentinelMark, exit>>

SendResolve ==
    /\ UNCHANGED <<regenVars, pureVars>>
    /\ pc = "awaitSend"
    /\ sendState = "pending"
    /\ sendState' = "resolved"
    /\ microtasks' = Append(microtasks, "resume")
    /\ UNCHANGED <<pc, subs, chunks, isComplete, streamQueue, queueResolver, turn,
                   nEmitted, yielded, received, idleMark, sentinelMark, idleTurn, exit>>

SendReject ==
    /\ UNCHANGED <<regenVars, pureVars>>
    /\ pc = "awaitSend"
    /\ sendState = "pending"
    /\ sendState' = "rejected"
    /\ microtasks' = Append(microtasks, "resume")
    /\ UNCHANGED <<pc, subs, chunks, isComplete, streamQueue, queueResolver, turn,
                   nEmitted, yielded, received, idleMark, sentinelMark, idleTurn, exit>>

(***************************************************************************)
(* The generator.                                                          *)
(***************************************************************************)
\* the first next(): the body runs to its first await
Start ==
    /\ UNCHANGED <<regenVars, pureVars>>
    /\ pc = "start"
    /\ turn = "none"
    /\ \/ /\ subs' = AllSubs
          /\ pc' = "awaitSend"
          /\ sendState' = "pending"
          /\ UNCHANGED exit
       \/ \* session.send throws before it returns a promise
          /\ Finally("sendError", "failed")
          /\ sendState' = "rejected"
    /\ UNCHANGED <<chunks, isComplete, streamQueue, queueResolver, microtasks, turn,
                   nEmitted, yielded, received, idleMark, sentinelMark, idleTurn>>

\* mutant: the error of send is swallowed and the loop runs
ResumeAfterSendSwallowingError(mt) == OuterLoop(mt)

\* the continuation after await session.send(...)
ResumeAfterSend(mt) ==
    \/ /\ sendState = "resolved"
       /\ OuterLoop(mt)
    \/ /\ sendState = "rejected"
       /\ Finally("sendError", "failed")
       /\ microtasks' = mt
       /\ UNCHANGED <<queueResolver, streamQueue, yielded>>

\* the sentinel's microtask: () => enqueue(null)
SentinelTask ==
    /\ UNCHANGED <<regenVars, pureVars>>
    /\ turn = "none"
    /\ microtasks # <<>>
    /\ Head(microtasks) = "sentinel"
    /\ Enqueue(NullItem, Tail(microtasks))
    /\ sentinelMark' = IF sentinelMark < 0 THEN Len(received) ELSE sentinelMark
    /\ UNCHANGED <<pc, subs, chunks, isComplete, turn, sendState, nEmitted, yielded,
                   received, idleMark, idleTurn, exit>>

\* the generator's continuation after an await
ResumeTask ==
    /\ UNCHANGED <<regenVars, pureVars>>
    /\ turn = "none"
    /\ microtasks # <<>>
    /\ Head(microtasks) = "resume"
    /\ \/ /\ pc = "awaitSend"
          /\ ResumeAfterSend(Tail(microtasks))
       \/ /\ pc = "awaitWait"
          /\ InnerLoop(Tail(microtasks))
    /\ UNCHANGED <<chunks, isComplete, turn, sendState, nEmitted, received, idleMark,
                   sentinelMark, idleTurn>>

(***************************************************************************)
(* The consumer.                                                           *)
(***************************************************************************)
\* next() after a chunk
ConsumerNext ==
    /\ UNCHANGED <<regenVars, pureVars>>
    /\ pc = "yield"
    /\ turn = "none"
    /\ InnerLoop(microtasks)
    /\ UNCHANGED <<chunks, isComplete, turn, sendState, nEmitted, received, idleMark,
                   sentinelMark, idleTurn>>

\* return(): the consumer stops early (a break out of for await)
ConsumerReturn ==
    /\ UNCHANGED <<regenVars, pureVars>>
    /\ turn = "none"
    /\ \/ /\ pc = "yield"
          /\ Finally("return", "done")
       \/ \* before the first next() the body, and its finally, never run
          /\ pc = "start"
          /\ pc' = "done"
          /\ exit' = "return"
          /\ UNCHANGED subs
    /\ UNCHANGED <<chunks, isComplete, streamQueue, queueResolver, microtasks, turn,
                   sendState, nEmitted, yielded, received, idleMark, sentinelMark,
                   idleTurn>>

\* throw(e): an error thrown into the generator
ConsumerThrow ==
    /\ UNCHANGED <<regenVars, pureVars>>
    /\ turn = "none"
    /\ \/ /\ pc = "yield"
          /\ Finally("throw", "failed")
       \/ /\ pc = "start"
          /\ pc' = "failed"
          /\ exit' = "throw"
          /\ UNCHANGED subs
    /\ UNCHANGED <<chunks, isComplete, streamQueue, queueResolver, microtasks, turn,
                   sendState, nEmitted, yielded, received, idleMark, sentinelMark,
                   idleTurn>>

(***************************************************************************)
(* The document model (schema.ts) and the documents of the model.          *)
(***************************************************************************)
SectionTypes == <<"lecture", "exercise", "discussion", "checkpoint">>

MkSection(flavor, m, s) ==
    [type |-> SectionTypes[((m + s) % 4) + 1], title |-> <<flavor, m, s>>, duration |-> 10]

MkModule(flavor, m, size) ==
    [title |-> <<flavor, m>>,
     duration |-> 10 * size,
     learning_objectives |-> <<[text |-> <<"Apply", flavor>>, blooms_level |-> "apply"]>>,
     sections |-> [s \in 1..size |-> MkSection(flavor, m, s - 1)]]

\* a schema-valid document with Len(shape) modules of shape[m] sections each
MkDoc(shape, flavor, sources) ==
    [title |-> <<"title", flavor>>,
     topic |-> <<"topic", flavor>>,
     audience |-> [level |-> IF flavor = "v0" THEN "beginner" ELSE "advanced"],
     duration |-> IF flavor = "v0" THEN 50 ELSE 90,
     prerequisites |-> <<flavor>>,
     context_sources |-> sources,
     modules |-> [m \in 1..Len(shape) |-> MkModule(flavor, m - 1, shape[m])]]

\* the shapes of the stored documents and of the generator's responses
DocShapes == {<<3, 2>>, <<1, 0, 2>>}
FragmentShapes == {<<3, 2>>, <<2, 3>>, <<3>>}
Flavors == {"v0", "v1"}
FragmentSources == <<"z.md">>

\* the paths of context files, and the context_sources a stored document starts with
Paths == {"x.md", "y.md"}
InitialSources == {<<>>, <<"x.md">>, <<"y.md", "y.md">>}

\* bounds on the request: the length of sectionIndices and of contextFiles
MaxTargets == 2
MaxFiles == 2

\* bounds on the workshops handed to mapSectionIndices: modules, sections per module
MaxModules == 3
MaxSections == 3

SeqsUpTo(S, n) == UNION {[1..k -> S] : k \in 0..n}

Range(s) == {s[i] : i \in DOMAIN s}

(***************************************************************************)
(* mapSectionIndices: the loop over modules and sections, as it runs.      *)
(***************************************************************************)
RECURSIVE MapLoopRestartingPerModule(_, _, _, _, _)
MapLoopRestartingPerModule(w, moduleIdx, sectionIdx, flatIndex, mapping) ==
    IF moduleIdx >= Len(w.modules)
      THEN mapping
      ELSE IF sectionIdx >= Len(w.modules[moduleIdx + 1].sections)
        THEN MapLoopRestartingPerModule(w, moduleIdx + 1, 0, 1, mapping)
        ELSE MapLoopRestartingPerModule(w, moduleIdx, sectionIdx + 1, flatIndex + 1,
                     (flatIndex :> [moduleIndex |-> moduleIdx,
                                    sectionIndex |-> sectionIdx]) @@ mapping)

RECURSIVE MapLoop(_, _, _, _, _)
MapLoop(w, moduleIdx, sectionIdx, flatIndex, mapping) ==
    IF moduleIdx >= Len(w.modules)
      THEN mapping
      ELSE IF sectionIdx >= Len(w.modules[moduleIdx + 1].sections)
        THEN MapLoop(w, moduleIdx + 1, 0, flatIndex, mapping)
        ELSE MapLoop(w, moduleIdx, sectionIdx + 1, flatIndex + 1,
                     mapping @@ (flatIndex :> [moduleIndex |-> moduleIdx,
                                               sectionIndex |-> sectionIdx]))

mapSectionIndices(w) == MapLoop(w, 0, 0, 1, <<>>)

\* one call of mapSectionIndices on a workshop
MapSections ==
    /\ UNCHANGED <<streamVars, regenVars, extractVars, validateVars>>
    /\ ~mapped
    /\ mapResult' = mapSectionIndices(mapWorkshop)
    /\ mapped' = TRUE
    /\ UNCHANGED mapWorkshop

(***************************************************************************)
(* storage.ts: the stored document is what saveWorkshop last wrote.        *)
(***************************************************************************)
loadWorkshop(file) == file

saveWorkshop(w) == w

(***************************************************************************)
(* regenerateWorkshop.                                                     *)
(***************************************************************************)
\* Array.from(new Set(arr)) after adding x: insertion order, no duplicates
SetAdd(arr, x) == IF x \in Range(arr) THEN arr ELSE Append(arr, x)

RECURSIVE AddAll(_, _)
AddAll(arr, xs) == IF xs = <<>> THEN arr ELSE AddAll(SetAdd(arr, Head(xs)), Tail(xs))

\* mutant: the new files are appended without the Set
MergeSourcesByConcat(existing, files) == existing \o files

\* the merge of context_sources: new Set(existing), add each file, Array.from
MergeSources(existing, files) == AddAll(AddAll(<<>>, existing), files)

\* updatedWorkshop.modules[pos.moduleIndex]?.sections[pos.sectionIndex] is defined
HasSection(updated, pos) ==
    /\ pos.moduleIndex + 1 \in DOMAIN updated.modules
    /\ pos.sectionIndex + 1 \in DOMAIN updated.modules[pos.moduleIndex + 1].sections

SectionAt(w, pos) == w.modules[pos.moduleIndex + 1].sections[pos.sectionIndex + 1]

\* an assignment that adds the section to the module instead of replacing one
SetSectionAppending(w, pos, updatedSection) ==
    [w EXCEPT !.modules[pos.moduleIndex + 1].sections = Append(@, updatedSection)]

\* workshop.modules[pos.moduleIndex].sections[pos.sectionIndex] = updatedSection
SetSection(w, pos, updatedSection) ==
    [w EXCEPT !.modules[pos.moduleIndex + 1].sections[pos.sectionIndex + 1] = updatedSection]

\* mutant: the module holding a targeted section is replaced whole
RECURSIVE SpliceLoopWholeModule(_, _, _, _, _)
SpliceLoopWholeModule(w, updated, map, todo, count) ==
    IF todo = <<>>
      THEN [workshop |-> w, updatedCount |-> count]
      ELSE IF Head(todo) \notin DOMAIN map
        THEN SpliceLoopWholeModule(w, updated, map, Tail(todo), count)
        ELSE IF HasSection(updated, map[Head(todo)])
          THEN SpliceLoopWholeModule(
                   [w EXCEPT !.modules[map[Head(todo)].moduleIndex + 1] =
                                 updated.modules[map[Head(todo)].moduleIndex + 1]],
                   updated, map, Tail(todo), count + 1)
          ELSE SpliceLoopWholeModule(w, updated, map, Tail(todo), count)

\* the splice loop over sectionsToRegen: [workshop, updatedCount] after it
RECURSIVE SpliceLoop(_, _, _, _, _)
SpliceLoop(w, updated, map, todo, count) ==
    IF todo = <<>>
      THEN [workshop |-> w, updatedCount |-> count]
      ELSE IF Head(todo) \notin DOMAIN map
        THEN SpliceLoop(w, updated, map, Tail(todo), count)
        ELSE IF HasSection(updated, map[Head(todo)])
          THEN SpliceLoop(SetSection(w, map[Head(todo)], SectionAt(updated, map[Head(todo)])),
                          updated, map, Tail(todo), count + 1)
          ELSE SpliceLoop(w, updated, map, Tail(todo), count)

\* mutant: the warning is given only when nothing was updated
CountMismatchWhenNone(count, todo) == count = 0 /\ Len(todo) > 0

\* updatedCount !== sectionsToRegen.length
CountMismatch(count, todo) == count # Len(todo)

\* Array.from(sectionMap.keys()): the keys in insertion order
MapKeys(map) == [i \in 1..Cardinality(DOMAIN map) |-> i]

\* the section numbers a request may name: the document's, and one below and above
TotalSections(w) == Cardinality(DOMAIN mapSectionIndices(w))

RequestedIndices(w) == SeqsUpTo(0..(TotalSections(w) + 1), MaxTargets)

\* a call that merges the new files into context_sources before it validates
\* the requested sections
RegenStartMergingFirst ==
    /\ UNCHANGED <<streamVars, pureVars>>
    /\ rpc = "idle"
    /\ \E sectionIndices \in RequestedIndices(loadWorkshop(stored)),
          files \in SeqsUpTo(Paths, MaxFiles) :
         LET loaded == loadWorkshop(stored)
             map == mapSectionIndices(loaded)
             todo == IF Len(sectionIndices) > 0 THEN sectionIndices ELSE MapKeys(map)
         IN  /\ workshop' = IF Len(files) > 0
                               THEN [loaded EXCEPT !.context_sources = MergeSources(@, files)]
                               ELSE loaded
             /\ before' = loaded
             /\ sectionMap' = map
             /\ sectionsToRegen' = todo
             /\ contextFiles' = files
             /\ IF \E i \in DOMAIN todo : todo[i] \notin DOMAIN map
                  THEN rpc' = "failed" /\ error' = "invalidIndex"
                  ELSE rpc' = "validated" /\ error' = "none"
    /\ updatedCount' = 0
    /\ warned' = FALSE
    /\ UNCHANGED <<stored, updatedWorkshop>>

\* steps 1 to 3: load, map, choose and validate the sections, for
\* options.sectionIndices out of requests and options.contextFiles out of fileLists
RegenStartOn(requests, fileLists) ==
    /\ UNCHANGED <<streamVars, pureVars>>
    /\ rpc = "idle"
    /\ \E sectionIndices \in requests, files \in fileLists :
         LET loaded == loadWorkshop(stored)
             map == mapSectionIndices(loaded)
             todo == IF Len(sectionIndices) > 0 THEN sectionIndices ELSE MapKeys(map)
         IN  /\ workshop' = loaded
             /\ before' = loaded
             /\ sectionMap' = map
             /\ sectionsToRegen' = todo
             /\ contextFiles' = files
             /\ IF \E i \in DOMAIN todo : todo[i] \notin DOMAIN map
                  THEN rpc' = "failed" /\ error' = "invalidIndex"
                  ELSE rpc' = "validated" /\ error' = "none"
    /\ updatedCount' = 0
    /\ warned' = FALSE
    /\ UNCHANGED <<stored, updatedWorkshop>>

RegenStart == RegenStartOn(RequestedIndices(loadWorkshop(stored)), SeqsUpTo(Paths, MaxFiles))

\* a step 4 that writes the document as soon as the sources are merged
LoadContextSavingSources ==
    /\ UNCHANGED <<streamVars, pureVars>>
    /\ rpc = "validated"
    /\ \/ /\ Len(contextFiles) > 0
          /\ workshop' = [workshop EXCEPT
                            !.context_sources = MergeSources(workshop.context_sources, contextFiles)]
          /\ stored' = saveWorkshop(workshop')
          /\ rpc' = "requested"
          /\ UNCHANGED error
       \/ /\ Len(contextFiles) > 0
          /\ rpc' = "failed"
          /\ error' = "contextLoad"
          /\ UNCHANGED <<workshop, stored>>
       \/ /\ Len(contextFiles) = 0
          /\ rpc' = "requested"
          /\ UNCHANGED <<workshop, error, stored>>
    /\ UNCHANGED <<sectionMap, sectionsToRegen, contextFiles, updatedWorkshop,
                   updatedCount, warned, before>>

\* step 4: load the new context files and merge context_sources
LoadContext ==
    /\ UNCHANGED <<streamVars, pureVars>>
    /\ rpc = "validated"
    /\ \/ /\ Len(contextFiles) > 0
          /\ workshop' = [workshop EXCEPT
                            !.context_sources = MergeSources(workshop.context_sources, contextFiles)]
          /\ rpc' = "requested"
          /\ UNCHANGED error
       \/ \* loadContextFiles throws
          /\ Len(contextFiles) > 0
          /\ rpc' = "failed"
          /\ error' = "contextLoad"
          /\ UNCHANGED workshop
       \/ /\ Len(contextFiles) = 0
          /\ rpc' = "requested"
          /\ UNCHANGED <<workshop, error>>
    /\ UNCHANGED <<stored, sectionMap, sectionsToRegen, contextFiles, updatedWorkshop,
                   updatedCount, warned, before>>

\* steps 5 to 7 fail: no response, no JSON in it, or a schema violation
ResponseFails ==
    /\ UNCHANGED <<streamVars, pureVars>>
    /\ rpc = "requested"
    /\ \E e \in {"noResponse", "parse", "schema"} :
         /\ rpc' = "failed"
         /\ error' = e
    /\ UNCHANGED <<stored, workshop, sectionMap, sectionsToRegen, contextFiles,
                   updatedWorkshop, updatedCount, warned, before>>

\* steps 5 to 7 and the splice: a schema-valid response is spliced in
Splice ==
    /\ UNCHANGED <<streamVars, pureVars>>
    /\ rpc = "requested"
    /\ \E shape \in FragmentShapes, flavor \in Flavors :
         LET updated == MkDoc(shape, flavor, FragmentSources)
             r == SpliceLoop(workshop, updated, sectionMap, sectionsToRegen, 0)
         IN  /\ updatedWorkshop' = updated
             /\ workshop' = r.workshop
             /\ updatedCount' = r.updatedCount
             /\ warned' = CountMismatch(r.updatedCount, sectionsToRegen)
    /\ rpc' = "spliced"
    /\ UNCHANGED <<stored, sectionMap, sectionsToRegen, contextFiles, error, before>>

\* step 8: save, and return the workshop
Save ==
    /\ UNCHANGED <<streamVars, pureVars>>
    /\ rpc = "spliced"
    /\ stored' = saveWorkshop(workshop)
    /\ rpc' = "done"
    /\ UNCHANGED <<workshop, sectionMap, sectionsToRegen, contextFiles, updatedWorkshop,
                   updatedCount, warned, error, before>>

(***************************************************************************)
(* extract-json.ts. A text is a sequence of characters.                    *)
(***************************************************************************)
\* the characters \s matches and String.prototype.trim removes
Whitespace == {" ", "\n", "\t", "\r"}

Digits == {"0", "1", "2", "3", "4", "5", "6", "7", "8", "9"}
HexDigits == Digits \cup {"a", "b", "c", "d", "e", "f", "A", "B", "C", "D", "E", "F"}
SimpleEscapes == {"\"", "\\", "/", "b", "f", "n", "r", "t"}
ControlChars == {"\n", "\t", "\r"}

\* the grave accent, which a TLA+ string cannot hold
Backtick == "backtick"

Fence == <<Backtick, Backtick, Backtick>>
JsonTag == <<"j", "s", "o", "n">>

IsAt(s, i, pattern) ==
    /\ i >= 1
    /\ i + Len(pattern) - 1 <= Len(s)
    /\ SubSeq(s, i, i + Len(pattern) - 1) = pattern

StartsWith(s, pattern) == IsAt(s, 1, pattern)

\* text.trim()
Trim(s) ==
    LET solid == {i \in DOMAIN s : s[i] \notin Whitespace}
        first == CHOOSE i \in solid : \A j \in solid : i <= j
        last == CHOOSE i \in solid : \A j \in solid : j <= i
    IN  IF solid = {} THEN <<>> ELSE SubSeq(s, first, last)

RECURSIVE SkipSpace(_, _)
SkipSpace(s, i) == IF i <= Len(s) /\ s[i] \in Whitespace THEN SkipSpace(s, i + 1) ELSE i

(***************************************************************************)
(* JSON.parse, as far as extract-json.ts uses it: does the text parse.     *)
(* Each operator returns the index after what it read, or 0.               *)
(***************************************************************************)
\* Loops over the characters of a text are run by halves, the first half and
\* then the second from where the first got to, so that a long text nests
\* them only a few levels deep; they visit the characters in order.

\* one character of a string: mode is 0 in plain text, 5 after a backslash,
\* and 4 to 1 while that many hex digits of a \u escape are due; out is -1
\* until the string ends (the index after its quote) or is found invalid (0)
StringStep(st, s, i) ==
    IF st.mode = 5 THEN
        IF s[i] \in SimpleEscapes THEN [st EXCEPT !.mode = 0]
        ELSE IF s[i] = "u" THEN [st EXCEPT !.mode = 4]
        ELSE [st EXCEPT !.out = 0]
    ELSE IF st.mode > 0 THEN
        IF s[i] \in HexDigits THEN [st EXCEPT !.mode = @ - 1] ELSE [st EXCEPT !.out = 0]
    ELSE IF s[i] = "\"" THEN [st EXCEPT !.out = i + 1]
    ELSE IF s[i] = "\\" THEN [st EXCEPT !.mode = 5]
    ELSE IF s[i] \in ControlChars THEN [st EXCEPT !.out = 0]
    ELSE st

RECURSIVE StringRun(_, _, _, _)
StringRun(s, lo, hi, st) ==
    IF st.out # -1 \/ lo > hi THEN st
    ELSE IF lo = hi THEN StringStep(st, s, lo)
    ELSE StringRun(s, (lo + hi) \div 2 + 1, hi, StringRun(s, lo, (lo + hi) \div 2, st))

\* the index after the closing quote of the string whose text starts at i
StringEnd(s, i) ==
    LET st == StringRun(s, i, Len(s), [mode |-> 0, out |-> -1])
    IN  IF st.out = -1 THEN 0 ELSE st.out

RECURSIVE DigitsEnd(_, _)
DigitsEnd(s, i) == IF i <= Len(s) /\ s[i] \in Digits THEN DigitsEnd(s, i + 1) ELSE i

NumberEnd(s, i) ==
    LET int == IF i <= Len(s) /\ s[i] = "-" THEN i + 1 ELSE i
        frac == IF int <= Len(s) /\ s[int] = "0" THEN int + 1 ELSE DigitsEnd(s, int)
        exp == IF frac <= Len(s) /\ s[frac] = "."
                 THEN IF DigitsEnd(s, frac + 1) > frac + 1 THEN DigitsEnd(s, frac + 1) ELSE 0
                 ELSE frac
        sign == IF exp + 1 <= Len(s) /\ s[exp + 1] \in {"+", "-"} THEN exp + 2 ELSE exp + 1
    IN  IF frac = int \/ exp = 0 THEN 0
        ELSE IF exp <= Len(s) /\ s[exp] \in {"e", "E"}
          THEN IF DigitsEnd(s, sign) > sign THEN DigitsEnd(s, sign) ELSE 0
          ELSE exp

RECURSIVE ValueEnd(_, _)
RECURSIVE MembersEnd(_, _)
RECURSIVE ElementsEnd(_, _)
ValueEnd(s, from) ==
    LET i == SkipSpace(s, from)
        inner == SkipSpace(s, i + 1)
    IN  IF i > Len(s) THEN 0
        ELSE IF s[i] = "{" THEN
            IF inner <= Len(s) /\ s[inner] = "}" THEN inner + 1 ELSE MembersEnd(s, inner)
        ELSE IF s[i] = "[" THEN
            IF inner <= Len(s) /\ s[inner] = "]" THEN inner + 1 ELSE ElementsEnd(s, inner)
        ELSE IF s[i] = "\"" THEN StringEnd(s, i + 1)
        ELSE IF IsAt(s, i, <<"t", "r", "u", "e">>) THEN i + 4
        ELSE IF IsAt(s, i, <<"f", "a", "l", "s", "e">>) THEN i + 5
        ELSE IF IsAt(s, i, <<"n", "u", "l", "l">>) THEN i + 4
        ELSE NumberEnd(s, i)

\* the members of an object from the name at i on, up to the closing brace
MembersEnd(s, i) ==
    LET name == IF i <= Len(s) /\ s[i] = "\"" THEN StringEnd(s, i + 1) ELSE 0
        colon == SkipSpace(s, name)
        value == IF name # 0 /\ colon <= Len(s) /\ s[colon] = ":"
                   THEN ValueEnd(s, colon + 1) ELSE 0
        next == SkipSpace(s, value)
    IN  IF value = 0 \/ next > Len(s) THEN 0
        ELSE IF s[next] = "}" THEN next + 1
        ELSE IF s[next] = "," THEN MembersEnd(s, SkipSpace(s, next + 1))
        ELSE 0

\* the elements of an array from the value at i on, up to the closing bracket
ElementsEnd(s, i) ==
    LET value == ValueEnd(s, i)
        next == SkipSpace(s, value)
    IN  IF value = 0 \/ next > Len(s) THEN 0
        ELSE IF s[next] = "]" THEN next + 1
        ELSE IF s[next] = "," THEN ElementsEnd(s, next + 1)
        ELSE 0

\* JSON.parse(s) does not throw
JsonParses(s) ==
    LET end == ValueEnd(s, 1)
    IN  end # 0 /\ SkipSpace(s, end) = Len(s) + 1

(***************************************************************************)
(* extractJson, line 8: /```(?:json)?\s*\n?([\s\S]*?)```/ matches at the   *)
(* leftmost opening fence that has a closing fence after its tag and       *)
(* whitespace; the group is what lies between, up to the first such fence. *)
(***************************************************************************)
CaptureStart(s, open) == SkipSpace(s, IF IsAt(s, open + 3, JsonTag) THEN open + 7 ELSE open + 3)

FenceEnds(s, from) == {j \in from..Len(s) : IsAt(s, j, Fence)}

FenceStarts(s) == {i \in 1..Len(s) : IsAt(s, i, Fence) /\ FenceEnds(s, CaptureStart(s, i)) # {}}

\* codeBlockMatch?.[1]: the group, or the empty text when nothing matches (both falsy)
CodeBlockCapture(s) ==
    LET open == CHOOSE i \in FenceStarts(s) : \A j \in FenceStarts(s) : i <= j
        from == CaptureStart(s, open)
        close == CHOOSE i \in FenceEnds(s, from) : \A j \in FenceEnds(s, from) : i <= j
    IN  IF FenceStarts(s) = {} THEN <<>> ELSE SubSeq(s, from, close - 1)

\* text.indexOf(ch), 1-based, 0 when absent
IndexOf(s, ch) ==
    LET found == {i \in DOMAIN s : s[i] = ch}
    IN  IF found = {} THEN 0 ELSE CHOOSE i \in found : \A j \in found : i <= j

\* lines 30-48, one character: at is the index at which the loop returned
ScanStep(st, s, i) ==
    LET d == IF s[i] = "{" THEN st.depth + 1
             ELSE IF s[i] = "}" THEN st.depth - 1 ELSE st.depth
    IN  IF st.escape THEN [st EXCEPT !.escape = FALSE]
        ELSE IF s[i] = "\\" /\ st.inString THEN [st EXCEPT !.escape = TRUE]
        ELSE IF s[i] = "\"" THEN [st EXCEPT !.inString = ~@]
        ELSE IF st.inString THEN st
        ELSE IF d = 0 THEN [st EXCEPT !.depth = d, !.at = i]
        ELSE [st EXCEPT !.depth = d]

RECURSIVE ScanRun(_, _, _, _)
ScanRun(s, lo, hi, st) ==
    IF st.at # 0 \/ lo > hi THEN st
    ELSE IF lo = hi THEN ScanStep(st, s, lo)
    ELSE ScanRun(s, (lo + hi) \div 2 + 1, hi, ScanRun(s, lo, (lo + hi) \div 2, st))

\* a scanner that counts every brace, quoted or not: it reads every quote and
\* backslash as plain text
ScanLoopCountingQuotedBraces(s, i, depth, inString, escape) ==
    ScanRun([k \in DOMAIN s |-> IF s[k] \in {"\"", "\\"} THEN " " ELSE s[k]], i, Len(s),
            [depth |-> depth, inString |-> FALSE, escape |-> FALSE, at |-> 0]).at

\* lines 27-49: the index of the brace at which depth returns to 0, or 0
ScanLoop(s, i, depth, inString, escape) ==
    ScanRun(s, i, Len(s),
            [depth |-> depth, inString |-> inString, escape |-> escape, at |-> 0]).at

\* s.replace(/[chars]+$/, '')
RECURSIVE StripTrailing(_, _)
StripTrailing(s, chars) ==
    IF s # <<>> /\ s[Len(s)] \in chars
      THEN StripTrailing(SubSeq(s, 1, Len(s) - 1), chars)
      ELSE s

\* s.replace(/,\s*$/, '')
StripTrailingComma(s) ==
    LET body == StripTrailing(s, Whitespace)
    IN  IF body # <<>> /\ body[Len(body)] = ","
          THEN SubSeq(body, 1, Len(body) - 1)
          ELSE s

\* lines 99-102, one character
InStrStep(st, ch) ==
    IF st.esc THEN [st EXCEPT !.esc = FALSE]
    ELSE IF ch = "\\" /\ st.inStr THEN [st EXCEPT !.esc = TRUE]
    ELSE IF ch = "\"" THEN [st EXCEPT !.inStr = ~@]
    ELSE st

RECURSIVE InStrRun(_, _, _, _)
InStrRun(s, lo, hi, st) ==
    IF st.inStr \notin BOOLEAN \/ lo > hi THEN st
    ELSE IF lo = hi THEN InStrStep(st, s[lo])
    ELSE InStrRun(s, (lo + hi) \div 2 + 1, hi, InStrRun(s, lo, (lo + hi) \div 2, st))

\* lines 96-103: whether the text ends inside a string
InStrAtEnd(s, i, inStr, esc) == InStrRun(s, i, Len(s), [inStr |-> inStr, esc |-> esc]).inStr

\* lines 118-129, one character
StackStep(st, ch) ==
    IF st.esc THEN [st EXCEPT !.esc = FALSE]
    ELSE IF ch = "\\" /\ st.inStr THEN [st EXCEPT !.esc = TRUE]
    ELSE IF ch = "\"" THEN [st EXCEPT !.inStr = ~@]
    ELSE IF st.inStr THEN st
    ELSE IF ch = "{" THEN [st EXCEPT !.stack = Append(@, "}")]
    ELSE IF ch = "[" THEN [st EXCEPT !.stack = Append(@, "]")]
    ELSE IF ch \in {"}", "]"} /\ st.stack # <<>> /\ st.stack[Len(st.stack)] = ch
      THEN [st EXCEPT !.stack = SubSeq(@, 1, Len(@) - 1)]
    ELSE st

RECURSIVE StackRun(_, _, _, _)
StackRun(s, lo, hi, st) ==
    IF st.inStr \notin BOOLEAN \/ lo > hi THEN st
    ELSE IF lo = hi THEN StackStep(st, s[lo])
    ELSE StackRun(s, (lo + hi) \div 2 + 1, hi, StackRun(s, lo, (lo + hi) \div 2, st))

\* lines 114-130: the closers still owed, innermost last
StackLoop(s, i, inStr, esc, stack) ==
    StackRun(s, i, Len(s), [inStr |-> inStr, esc |-> esc, stack |-> stack]).stack

Reverse(s) == [i \in 1..Len(s) |-> s[Len(s) + 1 - i]]

\* lines 104-108
CloseString(cleaned) ==
    IF InStrAtEnd(cleaned, 1, FALSE, FALSE)
      THEN (IF cleaned # <<>> /\ cleaned[Len(cleaned)] = "\\"
              THEN SubSeq(cleaned, 1, Len(cleaned) - 1)
              ELSE cleaned) \o <<"\"">>
      ELSE cleaned

\* closeJson that leaves an open string open
closeJsonWithoutClosingString(partial) ==
    LET cleaned == StripTrailingComma(StripTrailing(partial, {",", ":"} \cup Whitespace))
        stack == StackLoop(cleaned, 1, FALSE, FALSE, <<>>)
    IN  IF stack = <<>> /\ ~StartsWith(cleaned, <<"{">>) /\ ~StartsWith(cleaned, <<"[">>)
          THEN <<>>
          ELSE cleaned \o Reverse(stack)

\* closeJson; null is the empty text (both falsy at line 75)
closeJson(partial) ==
    LET cleaned == StripTrailingComma(
                       CloseString(StripTrailing(partial, {",", ":"} \cup Whitespace)))
        stack == StackLoop(cleaned, 1, FALSE, FALSE, <<>>)
    IN  IF stack = <<>> /\ ~StartsWith(cleaned, <<"{">>) /\ ~StartsWith(cleaned, <<"[">>)
          THEN <<>>
          ELSE cleaned \o Reverse(stack)

\* line 72: how many characters repairTruncatedJson is ready to give up
RepairWindow == 200

Smaller(a, b) == IF a <= b THEN a ELSE b

\* lines 73-82, for trim from lo to hi: the first closed candidate that
\* parses; found is the one an earlier trim returned
RECURSIVE RepairRun(_, _, _, _)
RepairRun(candidate, lo, hi, found) ==
    IF found # <<>> \/ lo > hi THEN found
    ELSE IF lo = hi
      THEN LET closed == closeJson(SubSeq(candidate, 1, Len(candidate) - lo))
           IN  IF closed # <<>> /\ JsonParses(closed) THEN closed ELSE <<>>
    ELSE RepairRun(candidate, (lo + hi) \div 2 + 1, hi,
                   RepairRun(candidate, lo, (lo + hi) \div 2, found))

\* lines 72-83, from trim on; null is the empty text (both falsy at line 55)
RepairLoop(candidate, trim) ==
    RepairRun(candidate, trim, Smaller(RepairWindow, Len(candidate)) - 1, <<>>)

repairTruncatedJson(json) == RepairLoop(json, 0)

\* extractJson without the direct parse of the trimmed text
extractJsonWithoutDirectParse(text) ==
    LET capture == CodeBlockCapture(text)
        trimmed == Trim(text)
        start == IndexOf(text, "{")
        end == ScanLoop(text, start, 0, FALSE, FALSE)
        repaired == repairTruncatedJson(SubSeq(text, start, Len(text)))
    IN  IF capture # <<>> THEN Trim(capture)
        ELSE IF start > 0 /\ end > 0 THEN SubSeq(text, start, end)
        ELSE IF start > 0 /\ repaired # <<>> THEN repaired
        ELSE trimmed

extractJson(text) ==
    LET capture == CodeBlockCapture(text)
        trimmed == Trim(text)
        start == IndexOf(text, "{")
        end == ScanLoop(text, start, 0, FALSE, FALSE)
        repaired == repairTruncatedJson(SubSeq(text, start, Len(text)))
    IN  IF capture # <<>> THEN Trim(capture)
        ELSE IF (StartsWith(trimmed, <<"{">>) \/ StartsWith(trimmed, <<"[">>))
                /\ JsonParses(trimmed) THEN trimmed
        ELSE IF start > 0 /\ end > 0 THEN SubSeq(text, start, end)
        ELSE IF start > 0 /\ repaired # <<>> THEN repaired
        ELSE trimmed

(***************************************************************************)
(* The responses extractJson is applied to.                                *)
(***************************************************************************)
\* the object of the truncation example: {"a": "hello"}
PayloadHello ==
    <<"{", "\"", "a", "\"", ":", " ", "\"", "h", "e", "l", "l", "o", "\"",
      "}">>

\* balanced braces inside a string value: {"a": "x{y}z"}
PayloadBraces ==
    <<"{", "\"", "a", "\"", ":", " ", "\"", "x", "{", "y", "}", "z", "\"",
      "}">>

\* a lone closing brace inside a string value: {"a":"}"}
PayloadCloser ==
    <<"{", "\"", "a", "\"", ":", "\"", "}", "\"", "}">>

\* an escaped quote, then a brace, inside a string value: {"a":"q\"}"}
PayloadQuote ==
    <<"{", "\"", "a", "\"", ":", "\"", "q", "\\", "\"", "}", "\"", "}">>

\* a string value that ends with an escaped backslash: {"a":"b\\","c":1}
PayloadSlash ==
    <<"{", "\"", "a", "\"", ":", "\"", "b", "\\", "\\", "\"", ",", "\"",
      "c", "\"", ":", "1", "}">>

\* an array and an object nested in an object: {"a":[1,{"b":"c"}],"d":2}
PayloadNested ==
    <<"{", "\"", "a", "\"", ":", "[", "1", ",", "{", "\"", "b", "\"", ":",
      "\"", "c", "\"", "}", "]", ",", "\"", "d", "\"", ":", "2", "}">>

\* arrays nested in arrays: {"a":{"b":[true,[null,"x"]]}}
PayloadDeep ==
    <<"{", "\"", "a", "\"", ":", "{", "\"", "b", "\"", ":", "[", "t", "r",
      "u", "e", ",", "[", "n", "u", "l", "l", ",", "\"", "x", "\"", "]",
      "]", "}", "}">>

\* the empty object: {}
PayloadEmpty ==
    <<"{", "}">>

\* a top-level array: [{"a":1},2]
PayloadArray ==
    <<"[", "{", "\"", "a", "\"", ":", "1", "}", ",", "2", "]">>

\* a fence inside a string value: {"a":"```"}
PayloadFence ==
    <<"{", "\"", "a", "\"", ":", "\"", Backtick, Backtick, Backtick, "\"",
      "}">>

\* a fenced brace inside a string value: {"a":"```{```"}
PayloadCode ==
    <<"{", "\"", "a", "\"", ":", "\"", Backtick, Backtick, Backtick, "{",
      Backtick, Backtick, Backtick, "\"", "}">>

\* See: 
ProseSee ==
    <<"S", "e", "e", ":", " ">>

\* I say "x": 
ProseSay ==
    <<"I", " ", "s", "a", "y", " ", "\"", "x", "\"", ":", " ">>

\* ok.
ProseOk ==
    <<" ", "o", "k", ".">>

\* <fence><tag>\n<payload>\n<fence>
Fenced(tag, payload) == Fence \o tag \o <<"\n">> \o payload \o <<"\n">> \o Fence

ObjectPayloads ==
    {PayloadHello, PayloadBraces, PayloadCloser, PayloadQuote, PayloadSlash,
     PayloadNested, PayloadDeep, PayloadEmpty, PayloadFence, PayloadCode}

\* [1,"{"]
PayloadList == <<"[", "1", ",", "\"", "{", "\"", "]">>

Payloads == ObjectPayloads \cup {PayloadArray, PayloadList}

Tags == {<<>>, JsonTag}
ProseBefore == {<<>>, ProseSee, ProseSay}
ProseAfter == {<<>>, ProseOk}

\* {"a":1," followed by a property name of n characters, cut before its end
LongName(n) ==
    <<"{", "\"", "a", "\"", ":", "1", ",", "\"">> \o [i \in 1..n |-> "k"]

\* property names around the repair window: with the opening quote they take
\* RepairWindow - 1, RepairWindow and RepairWindow + 1 characters
LongNames == {LongName(n) : n \in (RepairWindow - 2)..RepairWindow}

\* what a response is made of: a payload, whole or cut after `cut' characters,
\* in a fence or not, with prose or white space around it
Responses ==
    [kind : {"fenced"}, payload : Payloads, tag : Tags,
     before : ProseBefore, after : ProseAfter]
    \cup [kind : {"prose"}, payload : ObjectPayloads,
          before : ProseBefore, after : ProseAfter]
    \cup [kind : {"bare"}, payload : Payloads,
          before : {<<>>, <<" ">>}, after : {<<>>, <<"\n">>}]
    \cup UNION {{[kind |-> "truncated", payload |-> p, before |-> b, cut |-> k] :
                    b \in {<<>>, ProseSee}, k \in 1..(Len(p) - 1)} :
                 p \in ObjectPayloads}
    \cup {[kind |-> "truncated", payload |-> p \o <<"\"", ":", "2", "}">>,
           before |-> b, cut |-> Len(p)] : p \in LongNames, b \in {<<>>, <<" ">>}}

\* the text of a response
TextOf(r) ==
    CASE r.kind = "fenced" -> r.before \o Fenced(r.tag, r.payload) \o r.after
      [] r.kind = "truncated" -> r.before \o SubSeq(r.payload, 1, r.cut)
      [] OTHER -> r.before \o r.payload \o r.after

\* one call of extractJson on the response
Extract ==
    /\ UNCHANGED <<streamVars, regenVars, mapVars, validateVars>>
    /\ epc = "given"
    /\ extracted' = extractJson(responseText)
    /\ epc' = "extracted"
    /\ UNCHANGED <<response, responseText, again>>

\* one more call, on what the first returned
ExtractAgain ==
    /\ UNCHANGED <<streamVars, regenVars, mapVars, validateVars>>
    /\ epc = "extracted"
    /\ again' = extractJson(extracted)
    /\ epc' = "again"
    /\ UNCHANGED <<response, responseText, extracted>>

(***************************************************************************)
(* validation.ts: validateWorkshop. Durations are whole minutes, for which *)
(* the sums, differences and percentages the code takes in doubles are the *)
(* exact ones. A check's message is the values it interpolates.            *)
(***************************************************************************)
\* the thresholds of the rules
DurationTolerance == 2
TotalTolerance == 5
MaxCheckpointGap == 25
MinPracticePercent == 60
MaxLecturePercent == 25
MinCheckpointPercent == 15
MaxLectureMinutes == 15
MinSectionMinutes == 5

Abs(x) == IF x < 0 THEN -x ELSE x

Larger(a, b) == IF a >= b THEN a ELSE b

Check(rule, passed, severity, message) ==
    [rule |-> rule, passed |-> passed, severity |-> severity, message |-> message]

\* items.reduce((sum, item) => sum + item.duration, 0)
RECURSIVE SumDurations(_)
SumDurations(items) ==
    IF items = <<>> THEN 0
    ELSE SumDurations(SubSeq(items, 1, Len(items) - 1)) + items[Len(items)].duration

\* the sections of all modules in the order the nested loops visit them, each
\* with its indices
RECURSIVE SectionsFrom(_, _, _)
SectionsFrom(w, moduleIdx, sectionIdx) ==
    IF moduleIdx >= Len(w.modules) THEN <<>>
    ELSE IF sectionIdx >= Len(w.modules[moduleIdx + 1].sections)
      THEN SectionsFrom(w, moduleIdx + 1, 0)
      ELSE <<[moduleIdx |-> moduleIdx, sectionIdx |-> sectionIdx,
              section |-> w.modules[moduleIdx + 1].sections[sectionIdx + 1]]>>
           \o SectionsFrom(w, moduleIdx, sectionIdx + 1)

AllSections(w) == SectionsFrom(w, 0, 0)

\* the summed duration of the sections of the given types
RECURSIVE TimeOf(_, _)
TimeOf(entries, types) ==
    IF entries = <<>> THEN 0
    ELSE TimeOf(Tail(entries), types)
         + (IF Head(entries).section.type \in types THEN Head(entries).section.duration ELSE 0)

\* duration_sum with the tolerance taken as a strict bound
DurationSumChecksBelowTolerance(w) ==
    [m \in 1..Len(w.modules) |->
        LET module == w.modules[m]
            sectionSum == SumDurations(module.sections)
            diff == Abs(sectionSum - module.duration)
        IN  Check("duration_sum", diff < DurationTolerance, "error",
                  <<m, sectionSum, module.duration>>)]

\* 1. duration_sum, lines 118-131
DurationSumChecks(w) ==
    [m \in 1..Len(w.modules) |->
        LET module == w.modules[m]
            sectionSum == SumDurations(module.sections)
            diff == Abs(sectionSum - module.duration)
        IN  Check("duration_sum", diff <= DurationTolerance, "error",
                  <<m, sectionSum, module.duration>>)]

\* 2. total_duration, lines 134-145
TotalDurationChecks(w) ==
    LET moduleSum == SumDurations(w.modules)
        totalDiff == Abs(moduleSum - w.duration)
    IN  <<Check("total_duration", totalDiff <= TotalTolerance, "error",
                <<moduleSum, w.duration>>)>>

\* 3. exercise_completeness, lines 148-186
HasStarter(section) == Len(Trim(section.starter_code)) > 0
HasSolution(section) == Len(Trim(section.solution)) > 0

IsExercise(entry) == entry.section.type = "exercise"

IsIncomplete(entry) ==
    IsExercise(entry) /\ (~HasStarter(entry.section) \/ ~HasSolution(entry.section))

\* exercise_completeness that asks for a starter_code only
ExerciseChecksStarterOnly(w) ==
    LET NoStarter(entry) == IsExercise(entry) /\ ~HasStarter(entry.section)
        exerciseCount == Len(SelectSeq(AllSections(w), IsExercise))
        incomplete == SelectSeq(AllSections(w), NoStarter)
    IN  [i \in 1..Len(incomplete) |->
            Check("exercise_completeness", FALSE, "error",
                  <<incomplete[i].moduleIdx + 1, incomplete[i].sectionIdx + 1, "starter_code">>)]
        \o (IF exerciseCount > 0 /\ Len(incomplete) = 0
              THEN <<Check("exercise_completeness", TRUE, "error", <<exerciseCount>>)>>
              ELSE IF exerciseCount = 0
                THEN <<Check("exercise_completeness", FALSE, "error", <<>>)>>
                ELSE <<>>)

ExerciseChecks(w) ==
    LET exerciseCount == Len(SelectSeq(AllSections(w), IsExercise))
        incomplete == SelectSeq(AllSections(w), IsIncomplete)
    IN  [i \in 1..Len(incomplete) |->
            Check("exercise_completeness", FALSE, "error",
                  <<incomplete[i].moduleIdx + 1, incomplete[i].sectionIdx + 1,
                    IF ~HasStarter(incomplete[i].section) THEN "starter_code" ELSE "solution">>)]
        \o (IF exerciseCount > 0 /\ Len(incomplete) = 0
              THEN <<Check("exercise_completeness", TRUE, "error", <<exerciseCount>>)>>
              ELSE IF exerciseCount = 0
                THEN <<Check("exercise_completeness", FALSE, "error", <<>>)>>
                ELSE <<>>)

\* a gap loop that lets the running time carry over a checkpoint
RECURSIVE GapLoopWithoutReset(_, _, _, _)
GapLoopWithoutReset(sections, i, timeSinceCheckpoint, maxGap) ==
    IF i > Len(sections) THEN maxGap
    ELSE IF sections[i].type = "checkpoint"
      THEN GapLoopWithoutReset(sections, i + 1, timeSinceCheckpoint, maxGap)
      ELSE GapLoopWithoutReset(sections, i + 1, timeSinceCheckpoint + sections[i].duration,
                   Larger(maxGap, timeSinceCheckpoint + sections[i].duration))

\* lines 190-199: maxGap after the loop over one module's sections
RECURSIVE GapLoop(_, _, _, _)
GapLoop(sections, i, timeSinceCheckpoint, maxGap) ==
    IF i > Len(sections) THEN maxGap
    ELSE IF sections[i].type = "checkpoint"
      THEN GapLoop(sections, i + 1, 0, maxGap)
      ELSE GapLoop(sections, i + 1, timeSinceCheckpoint + sections[i].duration,
                   Larger(maxGap, timeSinceCheckpoint + sections[i].duration))

\* 4. checkpoint_spacing, lines 189-210
CheckpointSpacingChecks(w) ==
    [m \in 1..Len(w.modules) |->
        LET maxGap == GapLoop(w.modules[m].sections, 1, 0, 0)
        IN  Check("checkpoint_spacing", maxGap <= MaxCheckpointGap, "suggestion",
                  <<m, maxGap>>)]

\* practice_ratio taken over the time the sections add up to
PracticeRatioChecksOverSectionTime(w) ==
    LET practiceTime == TimeOf(AllSections(w), {"exercise", "discussion"})
        sectionTime == TimeOf(AllSections(w), {"lecture", "exercise", "discussion", "checkpoint"})
    IN  <<Check("practice_ratio", practiceTime * 100 >= MinPracticePercent * sectionTime,
                "suggestion", <<practiceTime, w.duration>>)>>

\* 5. practice_ratio, lines 213-231
PracticeRatioChecks(w) ==
    LET practiceTime == TimeOf(AllSections(w), {"exercise", "discussion"})
    IN  <<Check("practice_ratio", practiceTime * 100 >= MinPracticePercent * w.duration,
                "suggestion", <<practiceTime, w.duration>>)>>

\* 6. lecture_ratio, lines 234-252
LectureRatioChecks(w) ==
    LET lectureTime == TimeOf(AllSections(w), {"lecture"})
    IN  <<Check("lecture_ratio", lectureTime * 100 <= MaxLecturePercent * w.duration,
                "suggestion", <<lectureTime, w.duration>>)>>

\* 7. checkpoint_ratio, lines 255-273
CheckpointRatioChecks(w) ==
    LET checkpointTime == TimeOf(AllSections(w), {"checkpoint"})
    IN  <<Check("checkpoint_ratio", checkpointTime * 100 >= MinCheckpointPercent * w.duration,
                "suggestion", <<checkpointTime, w.duration>>)>>

\* 8. max_lecture_duration, lines 276-296
IsLongLecture(entry) ==
    entry.section.type = "lecture" /\ entry.section.duration > MaxLectureMinutes

MaxLectureChecks(w) ==
    LET long == SelectSeq(AllSections(w), IsLongLecture)
    IN  IF long = <<>>
          THEN <<Check("max_lecture_duration", TRUE, "suggestion", <<>>)>>
          ELSE [i \in 1..Len(long) |->
                  Check("max_lecture_duration", FALSE, "suggestion",
                        <<long[i].moduleIdx + 1, long[i].sectionIdx + 1,
                          long[i].section.duration>>)]

\* 9. min_section_duration, lines 299-319
IsShort(entry) == entry.section.duration < MinSectionMinutes

MinSectionChecks(w) ==
    LET short == SelectSeq(AllSections(w), IsShort)
    IN  IF short = <<>>
          THEN <<Check("min_section_duration", TRUE, "error", <<>>)>>
          ELSE [i \in 1..Len(short) |->
                  Check("min_section_duration", FALSE, "error",
                        <<short[i].moduleIdx + 1, short[i].sectionIdx + 1,
                          short[i].section.duration>>)]

\* BLOOMS_VERBS, lines 92-99
BLOOMS_VERBS ==
       "remember" :> <<
           <<"d", "e", "f", "i", "n", "e">>,
           <<"l", "i", "s", "t">>,
           <<"i", "d", "e", "n", "t", "i", "f", "y">>,
           <<"r", "e", "c", "a", "l", "l">>,
           <<"n", "a", "m", "e">>,
           <<"r", "e", "c", "o", "g", "n", "i", "z", "e">>,
           <<"s", "t", "a", "t", "e">>,
           <<"l", "a", "b", "e", "l">>>>
    @@ "understand" :> <<
           <<"e", "x", "p", "l", "a", "i", "n">>,
           <<"d", "e", "s", "c", "r", "i", "b", "e">>,
           <<"s", "u", "m", "m", "a", "r", "i", "z", "e">>,
           <<"i", "n", "t", "e", "r", "p", "r", "e", "t">>,
           <<"c", "l", "a", "s", "s", "i", "f", "y">>,
           <<"c", "o", "m", "p", "a", "r", "e">>,
           <<"d", "i", "s", "c", "u", "s", "s">>,
           <<"p", "a", "r", "a", "p", "h", "r", "a", "s", "e">>>>
    @@ "apply" :> <<
           <<"i", "m", "p", "l", "e", "m", "e", "n", "t">>,
           <<"u", "s", "e">>,
           <<"e", "x", "e", "c", "u", "t", "e">>,
           <<"d", "e", "m", "o", "n", "s", "t", "r", "a", "t", "e">>,
           <<"s", "o", "l", "v", "e">>,
           <<"a", "p", "p", "l", "y">>,
           <<"b", "u", "i", "l", "d">>,
           <<"o", "p", "e", "r", "a", "t", "e">>,
           <<"n", "a", "v", "i", "g", "a", "t", "e">>,
           <<"c", "r", "a", "f", "t">>,
           <<"p", "r", "a", "c", "t", "i", "c", "e">>,
           <<"c", "a", "l", "c", "u", "l", "a", "t", "e">>,
           <<"m", "o", "d", "i", "f", "y">>,
           <<"c", "o", "n", "s", "t", "r", "u", "c", "t">>,
           <<"p", "r", "o", "d", "u", "c", "e">>,
           <<"s", "e", "l", "e", "c", "t">>,
           <<"s", "h", "o", "w">>>>
    @@ "analyze" :> <<
           <<"d", "i", "f", "f", "e", "r", "e", "n", "t", "i", "a", "t", "e">>,
           <<"e", "x", "a", "m", "i", "n", "e">>,
           <<"c", "o", "m", "p", "a", "r", "e">>,
           <<"c", "o", "n", "t", "r", "a", "s", "t">>,
           <<"d", "e", "b", "u", "g">>,
           <<"t", "e", "s", "t">>,
           <<"i", "n", "v", "e", "s", "t", "i", "g", "a", "t", "e">>,
           <<"c", "a", "t", "e", "g", "o", "r", "i", "z", "e">>,
           <<"d", "i", "a", "g", "n", "o", "s", "e">>,
           <<"c", "l", "a", "s", "s", "i", "f", "y">>,
           <<"i", "n", "f", "e", "r">>,
           <<"i", "d", "e", "n", "t", "i", "f", "y">>,
           <<"o", "u", "t", "l", "i", "n", "e">>,
           <<"a", "t", "t", "r", "i", "b", "u", "t", "e">>,
           <<"o", "r", "g", "a", "n", "i", "z", "e">>>>
    @@ "evaluate" :> <<
           <<"a", "s", "s", "e", "s", "s">>,
           <<"c", "r", "i", "t", "i", "q", "u", "e">>,
           <<"j", "u", "s", "t", "i", "f", "y">>,
           <<"d", "e", "f", "e", "n", "d">>,
           <<"j", "u", "d", "g", "e">>,
           <<"r", "e", "c", "o", "m", "m", "e", "n", "d">>,
           <<"p", "r", "i", "o", "r", "i", "t", "i", "z", "e">>,
           <<"v", "a", "l", "i", "d", "a", "t", "e">>,
           <<"d", "e", "t", "e", "r", "m", "i", "n", "e">>,
           <<"d", "e", "c", "i", "d", "e">>,
           <<"a", "p", "p", "r", "a", "i", "s", "e">>,
           <<"r", "a", "n", "k">>,
           <<"m", "e", "a", "s", "u", "r", "e">>,
           <<"e", "v", "a", "l", "u", "a", "t", "e">>>>
    @@ "create" :> <<
           <<"d", "e", "s", "i", "g", "n">>,
           <<"b", "u", "i", "l", "d">>,
           <<"c", "o", "n", "s", "t", "r", "u", "c", "t">>,
           <<"d", "e", "v", "e", "l", "o", "p">>,
           <<"c", "o", "m", "p", "o", "s", "e">>,
           <<"f", "o", "r", "m", "u", "l", "a", "t", "e">>,
           <<"p", "l", "a", "n">>,
           <<"a", "r", "c", "h", "i", "t", "e", "c", "t">>,
           <<"s", "y", "n", "t", "h", "e", "s", "i", "z", "e">>,
           <<"g", "e", "n", "e", "r", "a", "t", "e">>,
           <<"h", "y", "p", "o", "t", "h", "e", "s", "i", "z", "e">>,
           <<"e", "n", "g", "i", "n", "e", "e", "r">>>>

\* String.prototype.toLowerCase, on one character
LowerOf ==
    "A" :> "a" @@ "B" :> "b" @@ "C" :> "c" @@ "D" :> "d" @@ "E" :> "e" @@
    "F" :> "f" @@ "G" :> "g" @@ "H" :> "h" @@ "I" :> "i" @@ "J" :> "j" @@
    "K" :> "k" @@ "L" :> "l" @@ "M" :> "m" @@ "N" :> "n" @@ "O" :> "o" @@
    "P" :> "p" @@ "Q" :> "q" @@ "R" :> "r" @@ "S" :> "s" @@ "T" :> "t" @@
    "U" :> "u" @@ "V" :> "v" @@ "W" :> "w" @@ "X" :> "x" @@ "Y" :> "y" @@
    "Z" :> "z"

\* LEVEL_BLOOMS_MAP, lines 104-108
LEVEL_BLOOMS_MAP ==
       "beginner" :> <<"remember", "understand", "apply">>
    @@ "intermediate" :> <<"understand", "apply", "analyze">>
    @@ "advanced" :> <<"analyze", "evaluate", "create">>

ToLowerCase(s) == [i \in 1..Len(s) |-> IF s[i] \in DOMAIN LowerOf THEN LowerOf[s[i]] ELSE s[i]]

\* s.trim().split(/\s+/)[0]
FirstWord(s) ==
    LET trimmed == Trim(s)
        spaces == {i \in DOMAIN trimmed : trimmed[i] \in Whitespace}
        stop == CHOOSE i \in spaces : \A j \in spaces : i <= j
    IN  IF spaces = {} THEN trimmed ELSE SubSeq(trimmed, 1, stop - 1)

\* word.includes(part)
Includes(word, part) == \E i \in 1..(Len(word) + 1) : i + Len(part) - 1 <= Len(word)
                                                     /\ SubSeq(word, i, i + Len(part) - 1) = part

\* the objectives of all modules in the order the nested loops visit them
RECURSIVE ObjectivesFrom(_, _, _)
ObjectivesFrom(w, moduleIdx, objIdx) ==
    IF moduleIdx >= Len(w.modules) THEN <<>>
    ELSE IF objIdx >= Len(w.modules[moduleIdx + 1].learning_objectives)
      THEN ObjectivesFrom(w, moduleIdx + 1, 0)
      ELSE <<[moduleIdx |-> moduleIdx, objIdx |-> objIdx,
              objective |-> w.modules[moduleIdx + 1].learning_objectives[objIdx + 1]]>>
           \o ObjectivesFrom(w, moduleIdx, objIdx + 1)

LevelFits(w, objective) ==
    objective.blooms_level \in Range(LEVEL_BLOOMS_MAP[w.audience.level])

VerbFits(objective) ==
    LET firstWord == ToLowerCase(FirstWord(objective.text))
    IN  \E verb \in Range(BLOOMS_VERBS[objective.blooms_level]) : Includes(firstWord, verb)

\* lines 325-352: the issues of the objectives from the i-th on
RECURSIVE BloomsIssues(_, _, _)
BloomsIssues(w, entries, i) ==
    IF i > Len(entries) THEN <<>>
    ELSE (IF LevelFits(w, entries[i].objective) THEN <<>>
          ELSE <<Check("blooms_alignment", FALSE, "suggestion",
                       <<entries[i].moduleIdx + 1, entries[i].objIdx + 1, "level">>)>>)
         \o (IF VerbFits(entries[i].objective) THEN <<>>
             ELSE <<Check("blooms_alignment", FALSE, "suggestion",
                          <<entries[i].moduleIdx + 1, entries[i].objIdx + 1, "verb">>)>>)
         \o BloomsIssues(w, entries, i + 1)

\* 10. blooms_alignment, lines 322-363
BloomsChecks(w) ==
    LET entries == ObjectivesFrom(w, 0, 0)
        issues == BloomsIssues(w, entries, 1)
    IN  IF issues = <<>>
          THEN <<Check("blooms_alignment", TRUE, "suggestion", <<Len(entries)>>)>>
          ELSE issues

\* 11. context_sources, lines 366-373
ContextSourcesChecks(w) ==
    IF Len(w.context_sources) > 0
      THEN <<Check("context_sources", TRUE, "error", <<Len(w.context_sources)>>)>>
      ELSE <<>>

\* lines 115-382
validateWorkshop(w) ==
    LET checks == DurationSumChecks(w) \o TotalDurationChecks(w) \o ExerciseChecks(w)
                  \o CheckpointSpacingChecks(w) \o PracticeRatioChecks(w)
                  \o LectureRatioChecks(w) \o CheckpointRatioChecks(w)
                  \o MaxLectureChecks(w) \o MinSectionChecks(w)
                  \o BloomsChecks(w) \o ContextSourcesChecks(w)
    IN  [valid |-> \A i \in DOMAIN checks : checks[i].passed, checks |-> checks]

(***************************************************************************)
(* The workshops the validate command is run on.                           *)
(***************************************************************************)
\* how many sections the first module of a workshop has at most
MaxItems == 3

Item(type, duration) == [type |-> type, duration |-> duration]

\* the sections the first module is made of
Items ==
    {Item("lecture", 10), Item("exercise", 15), Item("exercise", 20),
     Item("discussion", 16), Item("checkpoint", 10)}

\* section lists beyond those: the spec's scenario, a long lecture, a long
\* practice block just under and at 60% of 1000 minutes, and a section under
\* five minutes
ExtraLayouts ==
    {<<Item("lecture", 10), Item("exercise", 20), Item("checkpoint", 10),
       Item("discussion", 20)>>,
     <<Item("lecture", 16), Item("checkpoint", 10), Item("exercise", 20),
       Item("discussion", 20)>>,
     <<Item("exercise", 599), Item("lecture", 401)>>,
     <<Item("exercise", 600), Item("lecture", 400)>>,
     <<Item("exercise", 20), Item("checkpoint", 4), Item("discussion", 20),
       Item("checkpoint", 10)>>}

Layouts == (SeqsUpTo(Items, MaxItems) \ {<<>>}) \cup ExtraLayouts

\* what follows the first module: nothing, or one more module
SecondLayouts == {<<>>, <<Item("discussion", 20)>>, <<Item("lecture", 10), Item("exercise", 16)>>}

\* module.duration minus the sum of the module's sections, for the first
\* module; the second module's is 1 minus that
Slacks == {-3, -2, 0, 2, 3}

\* workshop.duration: 0 stands for the sum of the module durations
Totals == {0, 60}

\* audience.level and context_sources
Profiles == {<<"beginner", <<>>>>, <<"advanced", <<"x.md">>>>}

SectionOf(item, n) ==
    IF item.type = "exercise"
      THEN [type |-> item.type, title |-> <<"s", n>>, duration |-> item.duration,
            starter_code |-> <<"/", "/">>, solution |-> <<"o", "k">>]
      ELSE [type |-> item.type, title |-> <<"s", n>>, duration |-> item.duration]

ModuleOf(layout, slack) ==
    LET sections == [n \in 1..Len(layout) |-> SectionOf(layout[n], n)]
    IN  [title |-> <<"m">>,
         duration |-> SumDurations(sections) + slack,
         learning_objectives |->
             <<[text |-> <<"A", "p", "p", "l", "y", " ", "i", "t">>, blooms_level |-> "apply"]>>,
         sections |-> sections]

WorkshopOf(layout, slack, second, total, profile) ==
    LET modules == <<ModuleOf(layout, slack)>>
                   \o (IF second = <<>> THEN <<>> ELSE <<ModuleOf(second, 1 - slack)>>)
    IN  [title |-> <<"w">>,
         topic |-> <<"t">>,
         audience |-> [level |-> profile[1]],
         duration |-> IF total = 0 THEN SumDurations(modules) ELSE total,
         prerequisites |-> <<>>,
         context_sources |-> profile[2],
         modules |-> modules]

Workshops ==
    {WorkshopOf(layout, slack, second, total, profile) :
        layout \in Layouts, slack \in Slacks, second \in SecondLayouts,
        total \in Totals, profile \in Profiles}

\* index.tsx, handleValidate: load, validate, print, exit with 0 or 1
handleValidate ==
    /\ UNCHANGED <<streamVars, regenVars, mapVars, extractVars>>
    /\ vpc = "start"
    /\ LET result == validateWorkshop(loadWorkshop(vFile))
       IN  /\ vResult' = result
           /\ vExit' = IF result.valid THEN 0 ELSE 1
    /\ vpc' = "exited"
    /\ UNCHANGED <<vFile, readable, tResult, tpc>>

(***************************************************************************)
(* validation.ts: validateWorkshopAsync, and the validate_structure tool   *)
(* (tools/validate.ts) that calls it.                                      *)
(***************************************************************************)
\* checks.findIndex(c => c.rule === rule), counted from 1; 0 when none
FindIndex(checks, rule) ==
    LET hits == {i \in DOMAIN checks : checks[i].rule = rule}
    IN  IF hits = {} THEN 0 ELSE CHOOSE i \in hits : \A j \in hits : i <= j

\* the asynchronous variant with the validity left as validateWorkshop found it
validateWorkshopAsyncKeepingValid(w, files) ==
    LET result == validateWorkshop(w)
        Missing(path) == path \notin files
        missingFiles == SelectSeq(w.context_sources, Missing)
        contextCheckIdx == FindIndex(result.checks, "context_sources")
    IN  IF Len(w.context_sources) > 0 /\ contextCheckIdx > 0
          THEN IF Len(missingFiles) > 0
                 THEN [valid |-> result.valid,
                       checks |-> [result.checks EXCEPT ![contextCheckIdx] =
                                      Check("context_sources", FALSE, "error",
                                            <<"not found">> \o missingFiles)]]
                 ELSE [valid |-> result.valid,
                       checks |-> [result.checks EXCEPT ![contextCheckIdx] =
                                      Check("context_sources", TRUE, "error",
                                            <<"exist", Len(w.context_sources)>>)]]
          ELSE result

\* lines 387-429; files are the paths access(path, constants.R_OK) succeeds on
validateWorkshopAsync(w, files) ==
    LET result == validateWorkshop(w)
        Missing(path) == path \notin files
        missingFiles == SelectSeq(w.context_sources, Missing)
        contextCheckIdx == FindIndex(result.checks, "context_sources")
    IN  IF Len(w.context_sources) > 0 /\ contextCheckIdx > 0
          THEN IF Len(missingFiles) > 0
                 THEN [valid |-> FALSE,
                       checks |-> [result.checks EXCEPT ![contextCheckIdx] =
                                      Check("context_sources", FALSE, "error",
                                            <<"not found">> \o missingFiles)]]
                 ELSE [valid |-> result.valid,
                       checks |-> [result.checks EXCEPT ![contextCheckIdx] =
                                      Check("context_sources", TRUE, "error",
                                            <<"exist", Len(w.context_sources)>>)]]
          ELSE result

\* tools/validate.ts, lines 31-64: the handler of validate_structure; the
\* workshops of the model conform to WorkshopSchema, so safeParse succeeds
validateStructureTool ==
    /\ UNCHANGED <<streamVars, regenVars, mapVars, extractVars>>
    /\ tpc = "start"
    /\ LET result == validateWorkshopAsync(vFile, readable)
       IN  tResult' = [success |-> TRUE, valid |-> result.valid, checks |-> result.checks]
    /\ tpc' = "returned"
    /\ UNCHANGED <<vFile, vResult, vExit, vpc, readable>>

(***************************************************************************)
(* The workshops the validate_structure tool is called on: they vary the   *)
(* learning objectives, the exercises' starter_code and solution, and the  *)
(* context sources against the files on disk.                              *)
(***************************************************************************)
MaxObjectives == 2
MaxKits == 2

Objective(text, level) == [text |-> text, blooms_level |-> level]

Objectives ==
    {Objective(<<"A", "p", "p", "l", "y", " ", "i", "t">>, "apply"),
     Objective(<<"M", "i", "s", "u", "s", "e", " ", "i", "t">>, "apply"),
     Objective(<<" ", "B", "U", "I", "L", "D", "\t", "i", "t">>, "create"),
     Objective(<<"K", "n", "o", "w", " ", "i", "t">>, "remember"),
     Objective(<<"I", "d", "e", "n", "t", "i", "f", "y">>, "analyze"),
     Objective(<<>>, "understand")}

Levels == {"beginner", "intermediate", "advanced"}

\* starter_code and solution of an exercise
Kit(starter, solution) == [starter_code |-> starter, solution |-> solution]

CompleteKit == Kit(<<"/", "/">>, <<"o", "k">>)

Kits == {CompleteKit, Kit(<<" ", "\n">>, <<"o", "k">>), Kit(<<"/", "/">>, <<>>),
         Kit(<<>>, <<"\t">>)}

\* a discussion and a checkpoint, then an exercise and a checkpoint per kit
RECURSIVE KitSections(_, _)
KitSections(kits, n) ==
    IF kits = <<>> THEN <<>>
    ELSE <<[type |-> "exercise", title |-> <<"s", n>>, duration |-> 20,
            starter_code |-> Head(kits).starter_code, solution |-> Head(kits).solution],
           [type |-> "checkpoint", title |-> <<"s", n + 1>>, duration |-> 5]>>
         \o KitSections(Tail(kits), n + 2)

KitModule(objectives, kits) ==
    LET sections == <<[type |-> "discussion", title |-> <<"s", 1>>, duration |-> 20],
                      [type |-> "checkpoint", title |-> <<"s", 2>>, duration |-> 5]>>
                    \o KitSections(kits, 3)
    IN  [title |-> <<"m">>,
         duration |-> SumDurations(sections),
         learning_objectives |-> objectives,
         sections |-> sections]

\* extra: a second module follows, with one objective and one exercise
KitWorkshop(level, sources, objectives, kits, extra) ==
    LET modules == <<KitModule(objectives, kits)>>
                   \o (IF extra
                         THEN <<KitModule(<<Objective(<<"K", "n", "o", "w">>, "remember")>>,
                                          <<CompleteKit>>)>>
                         ELSE <<>>)
    IN  [title |-> <<"w">>,
         topic |-> <<"t">>,
         audience |-> [level |-> level],
         duration |-> SumDurations(modules),
         prerequisites |-> <<>>,
         context_sources |-> sources,
         modules |-> modules]

ApplyIt == <<Objective(<<"A", "p", "p", "l", "y", " ", "i", "t">>, "apply")>>

ObjectiveWorkshops ==
    {KitWorkshop(level, <<>>, objectives, <<CompleteKit>>, extra) :
        level \in Levels, objectives \in SeqsUpTo(Objectives, MaxObjectives),
        extra \in BOOLEAN}

ExerciseWorkshops ==
    {KitWorkshop("beginner", <<>>, ApplyIt, kits, extra) :
        kits \in SeqsUpTo(Kits, MaxKits), extra \in BOOLEAN}

ContextLists == {<<>>, <<"x.md">>, <<"x.md", "y.md">>, <<"y.md", "y.md">>}

ContextWorkshops ==
    {KitWorkshop("beginner", sources, ApplyIt, kits, FALSE) :
        sources \in ContextLists, kits \in {<<>>, <<CompleteKit>>}}

(***************************************************************************)
(* The specifications.                                                     *)
(***************************************************************************)
StreamStartWith(history) ==
    /\ pc = "start"
    /\ subs = {}
    /\ chunks = <<>>
    /\ isComplete = FALSE
    /\ streamQueue = <<>>
    /\ queueResolver = FALSE
    /\ microtasks = <<>>
    /\ turn = "none"
    /\ sendState = "none"
    /\ nEmitted = 0
    /\ yielded = <<>>
    /\ received = <<>>
    /\ idleMark = -1
    /\ sentinelMark = -1
    /\ idleTurn = [kept |-> history, start |-> 0, from |-> -1, to |-> -1]
    /\ exit = "none"

StreamStart == StreamStartWith(FALSE)

RegenStartWith(doc) ==
    /\ rpc = "idle"
    /\ stored = doc
    /\ workshop = doc
    /\ sectionMap = <<>>
    /\ sectionsToRegen = <<>>
    /\ contextFiles = <<>>
    /\ updatedWorkshop = doc
    /\ updatedCount = 0
    /\ warned = FALSE
    /\ error = "none"
    /\ before = doc

MapStartWith(doc) ==
    /\ mapWorkshop = doc
    /\ mapResult = <<>>
    /\ mapped = FALSE

ExtractStartWith(r) ==
    /\ response = r
    /\ responseText = TextOf(r)
    /\ extracted = <<>>
    /\ again = <<>>
    /\ epc = "given"

\* a workshop, the readable paths, and whether the tool is called on it
ValidateStartOn(w, files, tool) ==
    /\ vFile = saveWorkshop(w)
    /\ vResult = [valid |-> FALSE, checks |-> <<>>]
    /\ vExit = -1
    /\ vpc = "start"
    /\ readable = files
    /\ tResult = [success |-> FALSE, valid |-> FALSE, checks |-> <<>>]
    /\ tpc = tool

ValidateStartWith(w) == ValidateStartOn(w, {}, "none")

PureStart ==
    /\ MapStartWith(MkDoc(<<3, 2>>, "v0", <<>>))
    /\ ExtractStartWith([kind |-> "bare", payload |-> PayloadEmpty,
                         before |-> <<>>, after |-> <<>>])
    /\ ValidateStartWith(MkDoc(<<3, 2>>, "v0", <<>>))

StreamInit ==
    /\ StreamStart
    /\ PureStart
    /\ RegenStartWith(MkDoc(<<3, 2>>, "v0", <<>>))

StreamNext ==
    \/ EmitDelta
    \/ EmitMessage
    \/ EmitIdle
    \/ EndTurn
    \/ SendResolve
    \/ SendReject
    \/ Start
    \/ SentinelTask
    \/ ResumeTask
    \/ ConsumerNext
    \/ ConsumerReturn
    \/ ConsumerThrow

StreamSpec == StreamInit /\ [][StreamNext]_vars

\* the scheduling the engine and the callers guarantee: a dispatch ends, queued
\* microtasks run, the consumer keeps pulling, and the promise of send settles
StreamFairSpec ==
    /\ StreamSpec
    /\ WF_vars(EndTurn)
    /\ WF_vars(SentinelTask)
    /\ WF_vars(ResumeTask)
    /\ WF_vars(ConsumerNext)
    /\ WF_vars(SendResolve \/ SendReject)

\* streamResponse with the history of the idle handler's dispatch turn
TurnInit ==
    /\ StreamStartWith(TRUE)
    /\ PureStart
    /\ RegenStartWith(MkDoc(<<3, 2>>, "v0", <<>>))

TurnSpec == TurnInit /\ [][StreamNext]_vars

RegenInit ==
    /\ StreamStart
    /\ PureStart
    /\ \E shape \in DocShapes, sources \in InitialSources :
         RegenStartWith(MkDoc(shape, "v0", sources))

RegenNext ==
    \/ RegenStart
    \/ LoadContext
    \/ ResponseFails
    \/ Splice
    \/ Save

RegenSpec == RegenInit /\ [][RegenNext]_vars

\* regenerateWorkshop called again and again on one workshop file: all sections,
\* the first section, or the last and the second, with or without a context file
RepeatRequests(w) == {<<>>, <<1>>, <<TotalSections(w), 2>>}

RepeatFiles == {<<>>, <<"x.md">>}

RegenStartAgain == RegenStartOn(RepeatRequests(loadWorkshop(stored)), RepeatFiles)

\* the regen command has ended, and is run once more on the file
RegenAgain ==
    /\ UNCHANGED <<streamVars, pureVars>>
    /\ rpc \in {"done", "failed"}
    /\ rpc' = "idle"
    /\ UNCHANGED <<stored, workshop, sectionMap, sectionsToRegen, contextFiles,
                   updatedWorkshop, updatedCount, warned, error, before>>

RepeatInit ==
    /\ StreamStart
    /\ PureStart
    /\ \E shape \in DocShapes : RegenStartWith(MkDoc(shape, "v0", <<>>))

RepeatNext ==
    \/ RegenStartAgain
    \/ LoadContext
    \/ ResponseFails
    \/ Splice
    \/ Save
    \/ RegenAgain

RepeatSpec == RepeatInit /\ [][RepeatNext]_vars

\* mapSectionIndices applied to every workshop of up to MaxModules modules of up
\* to MaxSections sections each
MapShapes == SeqsUpTo(0..MaxSections, MaxModules)

MapInit ==
    /\ StreamStart
    /\ RegenStartWith(MkDoc(<<3, 2>>, "v0", <<>>))
    /\ ExtractStartWith([kind |-> "bare", payload |-> PayloadEmpty,
                         before |-> <<>>, after |-> <<>>])
    /\ ValidateStartWith(MkDoc(<<3, 2>>, "v0", <<>>))
    /\ \E shape \in MapShapes : MapStartWith(MkDoc(shape, "v0", <<>>))

MapNext == MapSections

MapSpec == MapInit /\ [][MapNext]_vars

ExtractInit ==
    /\ StreamStart
    /\ RegenStartWith(MkDoc(<<3, 2>>, "v0", <<>>))
    /\ MapStartWith(MkDoc(<<3, 2>>, "v0", <<>>))
    /\ ValidateStartWith(MkDoc(<<3, 2>>, "v0", <<>>))
    /\ \E r \in Responses : ExtractStartWith(r)

ExtractNext ==
    \/ Extract
    \/ ExtractAgain

ExtractSpec == ExtractInit /\ [][ExtractNext]_vars

ValidateInit ==
    /\ StreamStart
    /\ RegenStartWith(MkDoc(<<3, 2>>, "v0", <<>>))
    /\ MapStartWith(MkDoc(<<3, 2>>, "v0", <<>>))
    /\ ExtractStartWith([kind |-> "bare", payload |-> PayloadEmpty,
                         before |-> <<>>, after |-> <<>>])
    /\ \E w \in Workshops : ValidateStartWith(w)

ValidateNext == handleValidate

ValidateSpec == ValidateInit /\ [][ValidateNext]_vars

\* the validate command and the validate_structure tool, each run once on the
\* same workshop
ToolInit ==
    /\ StreamStart
    /\ RegenStartWith(MkDoc(<<3, 2>>, "v0", <<>>))
    /\ MapStartWith(MkDoc(<<3, 2>>, "v0", <<>>))
    /\ ExtractStartWith([kind |-> "bare", payload |-> PayloadEmpty,
                         before |-> <<>>, after |-> <<>>])
    /\ \/ \E w \in ObjectiveWorkshops \cup ExerciseWorkshops :
              ValidateStartOn(w, {}, "start")
       \/ \E w \in ContextWorkshops, files \in SUBSET Paths :
              ValidateStartOn(w, files, "start")

ToolNext ==
    \/ handleValidate
    \/ validateStructureTool

ToolSpec == ToolInit /\ [][ToolNext]_vars

(***************************************************************************)
(* Properties of streamResponse.                                           *)
(***************************************************************************)
IsPrefix(s, t) == Len(s) <= Len(t) /\ SubSeq(t, 1, Len(s)) = s

\* the content events the handlers received before the idle handler first ran
EventsBeforeIdle == IF idleMark >= 0 THEN SubSeq(received, 1, idleMark) ELSE received

\* the content events the handlers received before the sentinel was enqueued
EventsBeforeSentinel ==
    IF sentinelMark >= 0 THEN SubSeq(received, 1, sentinelMark) ELSE received

\* the consumer pulled until the generator returned
PulledToEnd == Finished /\ exit \in {"sentinel", "loopExit"}

TypesOf(cs) == [i \in DOMAIN cs |-> cs[i].type]

\* the text of the delta events among evts, last fragment last
RECURSIVE DeltaText(_)
DeltaText(evts) ==
    IF evts = <<>>
      THEN <<>>
      ELSE LET last == evts[Len(evts)]
               init == SubSeq(evts, 1, Len(evts) - 1)
           IN  IF last.type = "delta" THEN DeltaText(init) \o last.content
                                      ELSE DeltaText(init)

C2_UnsubscribedOnEveryExit ==
    /\ Finished => subs = {}
    /\ pc \in {"awaitSend", "awaitWait", "yield"} => subs = AllSubs

C2_Witness == pc = "failed" /\ exit = "throw" /\ Len(yielded) > 0 /\ subs = {}

\* C3: when the consumer pulls to the end, the chunks yielded are exactly the
\* content events received before the sentinel, in their order; when all of them
\* came before session.idle, every one of them.
C3_YieldedAreTheEventsInOrder ==
    /\ PulledToEnd => yielded = EventsBeforeSentinel
    /\ (PulledToEnd /\ idleMark = Len(received)) => yielded = received
    /\ IsPrefix(yielded, received)

C3_Witness ==
    /\ pc = "done"
    /\ exit = "sentinel"
    /\ TypesOf(received) = <<"delta", "delta", "complete">>
    /\ idleMark = 3
    /\ TypesOf(yielded) = <<"delta", "delta", "complete">>

\* C4: when session.send fails, the generator fails with that error and has
\* yielded no chunk, whatever was queued while the send was pending.
C4_SendFailureYieldsNothing ==
    sendState = "rejected" =>
        /\ yielded = <<>>
        /\ pc \in {"awaitSend", "failed"}
        /\ pc = "failed" => exit = "sendError"

C4_Witness ==
    /\ sendState = "rejected"
    /\ pc = "failed"
    /\ Len(received) >= 2
    /\ idleMark >= 0
    /\ yielded = <<>>

C6_EndsOnlyAfterIdle ==
    Finished => \/ isComplete
                \/ exit = "sendError"
                \/ exit \in {"return", "throw"}

\* every event is spent, no idle among them, and the consumer waits
C6_Witness ==
    /\ pc = "awaitWait"
    /\ queueResolver
    /\ ~isComplete
    /\ nEmitted = MaxEvents
    /\ microtasks = <<>>
    /\ turn = "none"
    /\ Len(yielded) > 0

\* C7: a yielded delta chunk's accumulated text is the text of all the delta
\* fragments received up to it, so it grows by exactly the new fragment; a
\* complete chunk carries the message text as content and as accumulated text.
C7_AccumulatedIsTextSoFar ==
    \A i \in DOMAIN yielded :
        /\ i <= Len(received)
        /\ yielded[i] = received[i]
        /\ yielded[i].type = "delta" =>
             /\ yielded[i].accumulated = DeltaText(SubSeq(received, 1, i))
             /\ yielded[i].accumulated =
                  DeltaText(SubSeq(received, 1, i - 1)) \o yielded[i].content
        /\ yielded[i].type = "complete" =>
             /\ yielded[i].content \in Messages
             /\ yielded[i].accumulated = yielded[i].content

C7_Witness ==
    /\ Len(yielded) = 3
    /\ TypesOf(yielded) = <<"delta", "complete", "delta">>
    /\ yielded[1].content # yielded[3].content
    /\ yielded[3].accumulated = yielded[1].content \o yielded[3].content

\* the idle handler has run and its dispatch turn is still open
InIdleTurn == idleTurn.from >= 0 /\ idleTurn.to < 0

\* the content events received up to the end of the dispatch turn the idle
\* handler first ran in: those before that turn, and those of the turn, before
\* and after the idle event
EventsUpToIdleTurn ==
    IF idleTurn.from < 0 \/ idleTurn.to < 0 THEN received
    ELSE SubSeq(received, 1, idleTurn.to)

Woken == "resume" \in Range(microtasks)

\* the generator is suspended in await waitForItem() on a pending promise
WaitingForItem == pc = "awaitWait" /\ ~Woken

\* C25: whenever the generator is suspended waiting for an item, the queue is
\* empty and queueResolver is set; queueResolver is set only then; and the next
\* enqueue then schedules the generator's continuation and clears queueResolver.
C25_NoLostWakeup ==
    /\ [](WaitingForItem => streamQueue = <<>> /\ queueResolver)
    /\ [](queueResolver => WaitingForItem /\ streamQueue = <<>>)
    /\ [][(WaitingForItem /\ Len(streamQueue') > Len(streamQueue))
             => (Woken' /\ ~queueResolver' /\ pc' = "awaitWait")]_vars

\* the only event so far was delivered, in the dispatch turn still open, to a
\* generator that waited on the empty queue: its continuation is scheduled
C25_Witness ==
    /\ turn = "open"
    /\ nEmitted = 1
    /\ sendState = "resolved"
    /\ pc = "awaitWait"
    /\ Len(streamQueue) = 1
    /\ microtasks = <<"resume">>
    /\ ~queueResolver

(***************************************************************************)
(* Properties of regenerateWorkshop.                                       *)
(***************************************************************************)
\* the size of the largest module of w
MaxSectionsIn(w) ==
    IF w.modules = <<>> THEN 0
    ELSE CHOOSE n \in {Len(w.modules[m].sections) : m \in DOMAIN w.modules} :
           \A m \in DOMAIN w.modules : Len(w.modules[m].sections) <= n

\* the (module, section) positions of w, 1-based
Positions(w) ==
    {p \in (DOMAIN w.modules) \X (1..MaxSectionsIn(w)) :
        p[2] \in DOMAIN w.modules[p[1]].sections}

\* the flat index of a position: how many positions come up to it, depth first
FlatIndexOf(w, p) ==
    Cardinality({q \in Positions(w) : q[1] < p[1] \/ (q[1] = p[1] /\ q[2] <= p[2])})

HasItemAt(w, p) == p[1] \in DOMAIN w.modules /\ p[2] \in DOMAIN w.modules[p[1]].sections

ItemAt(w, p) == w.modules[p[1]].sections[p[2]]

Spliced == rpc \in {"spliced", "done"}

Targets == Range(sectionsToRegen)

SameShape(w, v) ==
    /\ DOMAIN w.modules = DOMAIN v.modules
    /\ \A m \in DOMAIN w.modules :
         DOMAIN w.modules[m].sections = DOMAIN v.modules[m].sections

Resolved ==
    {i \in DOMAIN sectionsToRegen :
        \E p \in Positions(before) :
            FlatIndexOf(before, p) = sectionsToRegen[i] /\ HasItemAt(updatedWorkshop, p)}

FirstOccurrences(s) ==
    LET keep == {i \in DOMAIN s : \A j \in 1..(i - 1) : s[j] # s[i]}
        nth(k) == CHOOSE i \in keep : Cardinality({j \in keep : j < i}) = k - 1
    IN  [k \in 1..Cardinality(keep) |-> s[nth(k)]]

InvalidRequest ==
    /\ rpc # "idle"
    /\ \E i \in DOMAIN sectionsToRegen : sectionsToRegen[i] \notin 1..TotalSections(before)

FailurePaths == {"invalidIndex", "contextLoad", "noResponse", "parse", "schema"}

SplicedBefore(w) == \E p \in Positions(w) : ItemAt(w, p).title[1] = "v1"

ShapeOf(w) == [m \in DOMAIN w.modules |-> Len(w.modules[m].sections)]

\* the 1-based position an entry of the map names
PositionOf(entry) == <<entry.moduleIndex + 1, entry.sectionIndex + 1>>

\* C11: the map returned for a workshop of N sections has exactly the keys
\* 1..N; key k names the k-th position in depth-first order (modules in order,
\* sections in order, no restart at a module, nothing used by an empty module),
\* so going from a key to its position and back gives the key; every position
\* is named by a key, no two keys name one position; for sizes [3, 2] key 4
\* names module 1, section 0.
C11_FlatIndexIsABijection ==
    mapped =>
        LET w == mapWorkshop
            N == Cardinality(Positions(w))
        IN  /\ DOMAIN mapResult = 1..N
            /\ \A k \in 1..N :
                  /\ PositionOf(mapResult[k]) \in Positions(w)
                  /\ FlatIndexOf(w, PositionOf(mapResult[k])) = k
            /\ \A p \in Positions(w) :
                  /\ FlatIndexOf(w, p) \in 1..N
                  /\ PositionOf(mapResult[FlatIndexOf(w, p)]) = p
            /\ \A j, k \in 1..N : mapResult[j] = mapResult[k] => j = k
            /\ ShapeOf(w) = <<3, 2>> =>
                  mapResult[4] = [moduleIndex |-> 1, sectionIndex |-> 0]

\* a workshop whose second module is empty: the third module's first section
\* gets the key after the first module's only section
C11_Witness ==
    /\ mapped
    /\ ShapeOf(mapWorkshop) = <<1, 0, 2>>
    /\ mapResult[2] = [moduleIndex |-> 2, sectionIndex |-> 0]
    /\ DOMAIN mapResult = 1..3

(***************************************************************************)
(* Properties of extractJson.                                              *)
(***************************************************************************)
\* C12: for a payload in a fenced block, tagged json or not, with or without
\* prose around it, extractJson returns the payload, whole and alone.
C12_FencedPayloadReturnedWhole ==
    (epc # "given" /\ response.kind = "fenced") => extracted = Trim(response.payload)

\* C13: for a bare payload x, extractJson(extractJson(x)) = extractJson(x).
C13_ExtractIsIdempotentOnBare ==
    (epc = "again" /\ response.kind = "bare") => again = extracted

\* the text holds no fenced region: no fence followed by another fence
Unfenced(s) ==
    \A i, j \in 1..Len(s) : ~(IsAt(s, i, Fence) /\ j >= i + 3 /\ IsAt(s, j, Fence))

\* C14: for an object in prose, in a text without a fenced region, extractJson
\* returns the object, from its opening brace to the brace that closes it,
\* whatever braces and escaped quotes its string values hold.
C14_ObjectInProseReturnedWhole ==
    (epc # "given" /\ response.kind = "prose" /\ Unfenced(responseText)) =>
        /\ extracted = response.payload
        /\ extracted = SubSeq(responseText, IndexOf(responseText, "{"),
                              ValueEnd(responseText, IndexOf(responseText, "{")) - 1)

\* the object whose string value is x{y}z, with prose on both sides
C14_Witness ==
    /\ epc = "extracted"
    /\ response.kind = "prose"
    /\ response.payload = PayloadBraces
    /\ response.before = ProseSay
    /\ response.after = ProseOk
    /\ extracted = PayloadBraces

\* what is left of a truncated response's payload
Kept(r) == SubSeq(r.payload, 1, r.cut)

EndsInString(s) == InStrAtEnd(s, 1, FALSE, FALSE)

\* the last character of s that is not white space, "" when there is none
LastSolid(s) ==
    LET body == StripTrailing(s, Whitespace)
    IN  IF body = <<>> THEN "" ELSE body[Len(body)]

\* the closer of the innermost array or object open at the end of s
Innermost(s) ==
    LET stack == StackLoop(s, 1, FALSE, FALSE, <<>>)
    IN  IF stack = <<>> THEN "" ELSE stack[Len(stack)]

\* the quote that opens the string s ends in
OpeningQuote(s) ==
    CHOOSE q \in DOMAIN s :
        /\ s[q] = "\""
        /\ ~EndsInString(SubSeq(s, 1, q - 1))
        /\ \A k \in q..Len(s) : EndsInString(SubSeq(s, 1, k))

\* the payload is cut inside a string that is a value, not a property name
CutInStringValue(r) ==
    /\ EndsInString(Kept(r))
    /\ LET lead == SubSeq(Kept(r), 1, OpeningQuote(Kept(r)) - 1)
       IN  \/ LastSolid(lead) = ":"
           \/ LastSolid(lead) \in {"[", ","} /\ Innermost(lead) = "]"

\* the payload is cut between a property name's colon and the value
CutAtNameValueBoundary(r) == ~EndsInString(Kept(r)) /\ LastSolid(Kept(r)) = ":"

\* the payload is cut inside an array of the object, outside any string
CutInNestedArray(r) == ~EndsInString(Kept(r)) /\ Innermost(Kept(r)) = "]"

\* C15: for an object payload cut inside a string value, at a name/value
\* boundary or inside a nested array, extractJson returns a text that parses;
\* for {"a": "hel it returns {"a": "hel"}.
C15_TruncatedPayloadRepaired ==
    (/\ epc # "given"
     /\ response.kind = "truncated"
     /\ \/ CutInStringValue(response)
        \/ CutAtNameValueBoundary(response)
        \/ CutInNestedArray(response)) =>
        /\ JsonParses(extracted)
        /\ (response.payload = PayloadHello /\ response.cut = 10) =>
              extracted = SubSeq(PayloadHello, 1, 10) \o <<"\"", "}">>

\* the text is a JSON object or array, the two structured types of JSON
Structured(s) == s # <<>> /\ s[1] \in {"{", "["} /\ JsonParses(s)

\* C26: for a text without a fenced region whose trimmed form is a JSON object
\* or array, extractJson returns the trimmed text.
C26_ParsableTextReturnedVerbatim ==
    (epc # "given" /\ Unfenced(responseText) /\ Structured(Trim(responseText))) =>
        extracted = Trim(responseText)

\* the array [1,"{"] with white space on both sides
C26_Witness ==
    /\ epc = "extracted"
    /\ response.kind = "bare"
    /\ response.payload = PayloadList
    /\ responseText = <<" ">> \o PayloadList \o <<"\n">>
    /\ extracted = PayloadList

\* the text from the first opening brace onward
FromFirstBrace(s) == SubSeq(s, IndexOf(s, "{"), Len(s))

\* s without its last k characters
WithoutLast(s, k) == SubSeq(s, 1, Len(s) - k)

\* the numbers of trailing characters, out of 0..most, whose removal leaves a
\* prefix that the closing transform turns into a text that parses
Repairable(s, most) ==
    {k \in 0..most : /\ k <= Len(s)
                     /\ closeJson(WithoutLast(s, k)) # <<>>
                     /\ JsonParses(closeJson(WithoutLast(s, k)))}

\* extractJson went to the repair: no fenced region, no direct parse, an
\* opening brace, and a scan that did not return to depth zero
Repairing ==
    /\ epc # "given"
    /\ Unfenced(responseText)
    /\ ~Structured(Trim(responseText))
    /\ IndexOf(responseText, "{") > 0
    /\ ScanLoop(responseText, IndexOf(responseText, "{"), 0, FALSE, FALSE) = 0

\* C27: when extractJson goes to the repair, it returns the closing transform
\* of the text from the first opening brace without its last k characters, for
\* the least k of 0..200 for which that parses, and the trimmed text when
\* there is no such k.
C27_LeastTrimmedRepairWithin200 ==
    Repairing =>
        LET json == FromFirstBrace(responseText)
            ks == Repairable(json, RepairWindow)
            least == CHOOSE k \in ks : \A j \in ks : k <= j
        IN  IF ks = {} THEN extracted = Trim(responseText)
            ELSE /\ extracted = closeJson(WithoutLast(json, least))
                 /\ JsonParses(extracted)

(***************************************************************************)
(* Properties of validateWorkshop.                                         *)
(***************************************************************************)
Exited == vpc = "exited"

\* the checks of a rule, in the order they were pushed
ChecksOf(rule) ==
    LET at == {i \in DOMAIN vResult.checks : vResult.checks[i].rule = rule}
        nth(k) == CHOOSE i \in at : Cardinality({j \in at : j < i}) = k - 1
    IN  [k \in 1..Cardinality(at) |-> vResult.checks[nth(k)]]

Failed(severity) ==
    {i \in DOMAIN vResult.checks :
        ~vResult.checks[i].passed /\ vResult.checks[i].severity = severity}

\* the sum of the values of a function with a finite domain
RECURSIVE SumFn(_)
SumFn(f) ==
    IF DOMAIN f = {} THEN 0
    ELSE LET x == CHOOSE x \in DOMAIN f : TRUE
         IN  f[x] + SumFn([y \in DOMAIN f \ {x} |-> f[y]])

\* the minutes of the sections of w that have one of the types
MinutesOf(w, types) ==
    SumFn([p \in {q \in Positions(w) : ItemAt(w, q).type \in types} |->
              ItemAt(w, p).duration])

\* the minutes of the sections of one module
ModuleMinutes(module) == SumFn([s \in DOMAIN module.sections |-> module.sections[s].duration])

\* C17: the result is invalid only if a check of severity error failed, and
\* the command exits with 0 when only suggestions failed.
C17_ValidUnlessAnErrorFailed ==
    Exited =>
        /\ ~vResult.valid => Failed("error") # {}
        /\ Failed("error") = {} => vExit = 0

\* C18: there is one duration_sum check per module, in module order, of
\* severity error; it passed exactly if the module's sections sum to within 2
\* of the module's duration: 2 over or under passes, 3 over or under fails.
C18_DurationSumWithinTwo ==
    Exited =>
        LET sums == ChecksOf("duration_sum")
        IN  /\ Len(sums) = Len(vFile.modules)
            /\ \A m \in DOMAIN vFile.modules :
                  LET sum == ModuleMinutes(vFile.modules[m])
                      declared == vFile.modules[m].duration
                  IN  /\ sums[m].severity = "error"
                      /\ sums[m].message[1] = m
                      /\ sums[m].passed <=> (sum - declared \in -2..2)
                      /\ sum - declared \in {2, -2} => sums[m].passed
                      /\ sum - declared \in {3, -3} => ~sums[m].passed

\* two modules: the first 3 under its duration, the second 2 over
C18_Witness ==
    /\ Exited
    /\ Len(vFile.modules) = 2
    /\ ModuleMinutes(vFile.modules[1]) = vFile.modules[1].duration - 3
    /\ ModuleMinutes(vFile.modules[2]) = vFile.modules[2].duration + 2
    /\ ~ChecksOf("duration_sum")[1].passed
    /\ ChecksOf("duration_sum")[2].passed

\* C19: there is one practice_ratio check, of severity suggestion; it passed
\* exactly if the minutes of exercises and discussions, over all modules, are
\* at least 60% of workshop.duration: 600 of 1000 passes, 599 of 1000 fails.
C19_PracticeAtLeastSixtyPercent ==
    Exited =>
        LET ratios == ChecksOf("practice_ratio")
            practice == MinutesOf(vFile, {"exercise", "discussion"})
        IN  /\ Len(ratios) = 1
            /\ ratios[1].severity = "suggestion"
            /\ ratios[1].passed <=> (practice * 100 >= 60 * vFile.duration)
            /\ (practice = 600 /\ vFile.duration = 1000) => ratios[1].passed
            /\ (practice = 599 /\ vFile.duration = 1000) => ~ratios[1].passed

\* 36 practice minutes in a workshop of 60 whose sections add up to less:
\* exactly 60% of the declared duration
C19_Witness ==
    /\ Exited
    /\ vFile.duration = 60
    /\ MinutesOf(vFile, {"exercise", "discussion"}) = 36
    /\ MinutesOf(vFile, {"lecture", "exercise", "discussion", "checkpoint"}) = 46
    /\ ChecksOf("practice_ratio")[1].passed

\* the minutes of sections i..j of a module
SpanMinutes(module, i, j) == SumFn([s \in i..j |-> module.sections[s].duration])

\* sections i..j of a module hold no checkpoint
CheckpointFree(module, i, j) == \A s \in i..j : module.sections[s].type # "checkpoint"

\* C20: there is one checkpoint_spacing check per module, in module order, of
\* severity suggestion; it passed exactly if no run of consecutive sections
\* without a checkpoint, within the module, takes more than 25 minutes; for
\* [lecture 10, exercise 20, checkpoint 10, discussion 20] the gap is 30.
C20_CheckpointEveryTwentyFive ==
    Exited =>
        LET spacings == ChecksOf("checkpoint_spacing")
        IN  /\ Len(spacings) = Len(vFile.modules)
            /\ \A m \in DOMAIN vFile.modules :
                  LET module == vFile.modules[m]
                      n == Len(module.sections)
                  IN  /\ spacings[m].severity = "suggestion"
                      /\ spacings[m].message[1] = m
                      /\ spacings[m].passed <=>
                            \A i \in 1..n, j \in 1..n :
                                (i <= j /\ CheckpointFree(module, i, j)) =>
                                    SpanMinutes(module, i, j) <= 25
                      /\ [s \in 1..n |-> <<module.sections[s].type, module.sections[s].duration>>]
                            = <<<<"lecture", 10>>, <<"exercise", 20>>, <<"checkpoint", 10>>,
                                <<"discussion", 20>>>>
                          => spacings[m].message[2] = 30 /\ ~spacings[m].passed

\* the spec's scenario, followed by a module that starts with 20 minutes of
\* discussion: the first module's gap is 30, the second's is 20
C20_Witness ==
    /\ Exited
    /\ Len(vFile.modules) = 2
    /\ Len(vFile.modules[1].sections) = 4
    /\ vFile.modules[1].sections[3].type = "checkpoint"
    /\ vFile.modules[1].sections[4].duration = 20
    /\ ChecksOf("checkpoint_spacing")[1].message = <<1, 30>>
    /\ ~ChecksOf("checkpoint_spacing")[1].passed
    /\ ChecksOf("checkpoint_spacing")[2].message = <<2, 20>>
    /\ ChecksOf("checkpoint_spacing")[2].passed

(***************************************************************************)
(* Properties of validateWorkshopAsync and of the rules on objectives and  *)
(* exercises.                                                              *)
(***************************************************************************)
Returned == tpc = "returned"

\* the checks of a rule among some checks
Findings(checks, rule) ==
    LET OfRule(c) == c.rule = rule
    IN  SelectSeq(checks, OfRule)

Unreadable == {i \in DOMAIN vFile.context_sources : vFile.context_sources[i] \notin readable}

ObjectivePositions ==
    {<<m, o>> : m \in DOMAIN vFile.modules, o \in 1..MaxObjectives + 1} \cap
    {p \in Nat \X Nat : p[1] \in DOMAIN vFile.modules
                         /\ p[2] \in DOMAIN vFile.modules[p[1]].learning_objectives}

ObjectiveAt(p) == vFile.modules[p[1]].learning_objectives[p[2]]

\* the tags allowed for an audience level
AllowedTags(level) ==
    CASE level = "beginner" -> {"remember", "understand", "apply"}
      [] level = "intermediate" -> {"understand", "apply", "analyze"}
      [] level = "advanced" -> {"analyze", "evaluate", "create"}

\* condition (1): the tag is allowed for the audience
TagAllowed(p) == ObjectiveAt(p).blooms_level \in AllowedTags(vFile.audience.level)

\* condition (2): the leading word is one of the verbs listed for the tag
LeadingWordListed(p) ==
    ToLowerCase(FirstWord(ObjectiveAt(p).text)) \in Range(BLOOMS_VERBS[ObjectiveAt(p).blooms_level])

\* the failing blooms_alignment checks are these, each once, and a single
\* passing check is reported exactly if there is none; all are suggestions
BloomsFindingsAre(violations) ==
    LET found == Findings(vResult.checks, "blooms_alignment")
        failing == {i \in DOMAIN found : ~found[i].passed}
    IN  /\ \A i \in DOMAIN found : found[i].severity = "suggestion"
        /\ {found[i].message : i \in failing} = violations
        /\ Cardinality(failing) = Cardinality(violations)
        /\ violations = {} => Len(found) = 1 /\ found[1].passed
        /\ violations # {} => failing = DOMAIN found

\* C22: blooms_alignment reports one failing suggestion per objective whose
\* tag is not allowed for the audience level and one per objective whose
\* leading word is not a verb listed for its tag, and a single passing
\* suggestion exactly if no objective violates either condition.
C22_OneSuggestionPerViolatedCondition ==
    Exited =>
        BloomsFindingsAre({<<p[1], p[2], "level">> : p \in {q \in ObjectivePositions : ~TagAllowed(q)}}
                          \cup {<<p[1], p[2], "verb">> : p \in {q \in ObjectivePositions : ~LeadingWordListed(q)}})

\* the exercises of the workshop, as <<module, section>> counted from 1
ExercisePositions ==
    {p \in Positions(vFile) : ItemAt(vFile, p).type = "exercise"}

Blank(s) == \A i \in DOMAIN s : s[i] \in Whitespace

\* an exercise whose starter_code or solution is blank
BlankExercises ==
    {p \in ExercisePositions :
        Blank(ItemAt(vFile, p).starter_code) \/ Blank(ItemAt(vFile, p).solution)}

\* C23: the exercise_completeness checks are of severity error; they all
\* passed exactly if the workshop has an exercise and no exercise has a blank
\* starter_code or a blank solution; a workshop without exercises gets one
\* failing check, and otherwise each exercise with a blank starter_code or
\* solution gets one failing check of its own, in document order.
C23_ExercisesCompleteOrReported ==
    Exited =>
        LET found == Findings(vResult.checks, "exercise_completeness")
            failing == {i \in DOMAIN found : ~found[i].passed}
        IN  /\ Len(found) >= 1
            /\ \A i \in DOMAIN found : found[i].severity = "error"
            /\ failing = {} <=> (ExercisePositions # {} /\ BlankExercises = {})
            /\ ExercisePositions = {} => Len(found) = 1 /\ failing = {1}
            /\ ExercisePositions # {} =>
                  /\ Cardinality(failing) = Cardinality(BlankExercises)
                  /\ {<<found[i].message[1], found[i].message[2]>> : i \in failing}
                        = BlankExercises
                  /\ \A i, j \in failing :
                        i < j => \/ found[i].message[1] < found[j].message[1]
                                 \/ /\ found[i].message[1] = found[j].message[1]
                                    /\ found[i].message[2] < found[j].message[2]
            /\ failing # {} => ~vResult.valid

\* two modules; the first has an exercise with a blank starter_code and one
\* with an empty solution, the second a complete exercise: two failing checks
C23_Witness ==
    /\ Exited
    /\ Len(vFile.modules) = 2
    /\ BlankExercises = {<<1, 3>>, <<1, 5>>}
    /\ ExercisePositions = {<<1, 3>>, <<1, 5>>, <<2, 3>>}
    /\ Len(Findings(vResult.checks, "exercise_completeness")) = 2
    /\ Findings(vResult.checks, "exercise_completeness")[2].message = <<1, 5, "solution">>

====
